---- MODULE Spec2Model ----
(***************************************************************************)
(* A model of the qbasic-vm stack virtual machine (VirtualMachine.ts):     *)
(* the dispatch loops run / runSome / runOneInstruction, the cooperative   *)
(* suspension protocol suspend / resume with the host's interval timers    *)
(* and completion callbacks, the call-frame model (CALL / GOSUB / RET) and *)
(* variable binding (getVariable / setVariable).                           *)
(*                                                                         *)
(* JavaScript objects are modelled by identity: a StackFrame has an id, a  *)
(* variables map is an index into vm.maps and a ScalarVariable an index    *)
(* into vm.cells, so that "the very same map" and "the same cell" are      *)
(* statements about indices.  The host (browser) is single threaded: a     *)
(* handler runs to completion before the next timer tick or callback, and  *)
(* ctx records the position inside the handler that is running.            *)
(***************************************************************************)
EXTENDS Integers, Sequences, FiniteSets, TLC

VARIABLES vm, ctx, last, faulted, parser

vars == <<vm, ctx, last, faulted, parser>>

(***************************************************************************)
(* Bounds of the model.                                                    *)
(***************************************************************************)
\* instructions executed per runSome quantum (the field is host-settable)
Quantum == 2
\* completion callbacks that may be outstanding when the host resets the VM
MaxPending == 2
\* interval timers that may be armed at once in the host
MaxTimers == 2

(***************************************************************************)
(* RuntimeErrorCodes, and the marker for any other thrown value.           *)
(***************************************************************************)
DIVISION_BY_ZERO == 101
STACK_UNDERFLOW == 202
UKNOWN_SYSCALL == 301
NoError == 0
TypeError == -1

(***************************************************************************)
(* Values on the operand stack and in variables.  A number is the rational *)
(* v/d in lowest terms (d > 0); a reference is the index of a cell.        *)
(***************************************************************************)
Abs(n) == IF n < 0 THEN -n ELSE n

RECURSIVE Gcd(_, _)
Gcd(a, b) == IF b = 0 THEN a ELSE Gcd(b, a % b)

Num(n) == [k |-> "num", v |-> n, d |-> 1]
Rat(n, m) ==
    LET g == Gcd(Abs(n), Abs(m))
        s == IF m < 0 THEN -1 ELSE 1
    IN  [k |-> "num", v |-> (s * n) \div g, d |-> (s * m) \div g]
Ref(c) == [k |-> "ref", v |-> c, d |-> 1]
Str(i) == [k |-> "str", v |-> i, d |-> 1]
Undefined == [k |-> "undef", v |-> 0, d |-> 1]
NaN == [k |-> "nan", v |-> 0, d |-> 1]
Null == [k |-> "null", v |-> 0, d |-> 1]

IsZero(x) == x.k = "num" /\ x.v = 0
Truthy(x) ==
    CASE x.k = "num" -> x.v # 0
      [] x.k = "str" -> x.v # 0
      [] x.k = "ref" -> TRUE
      [] OTHER -> FALSE

\* lhs / rhs on JavaScript numbers (rhs is known not to be 0)
JsDiv(lhs, rhs) ==
    IF lhs.k = "num" /\ rhs.k = "num" /\ rhs.v # 0
    THEN Rat(lhs.v * rhs.d, lhs.d * rhs.v)
    ELSE NaN

\* lhs % rhs on JavaScript numbers: the remainder takes the dividend's sign
JsMod(lhs, rhs) ==
    IF lhs.k = "num" /\ rhs.k = "num" /\ rhs.v # 0
    THEN LET a == lhs.v * rhs.d
             b == Abs(rhs.v * lhs.d)
             r == Abs(a) % b
         IN  Rat(IF a < 0 THEN -r ELSE r, lhs.d * rhs.d)
    ELSE NaN

JsAdd(lhs, rhs) ==
    IF lhs.k = "num" /\ rhs.k = "num"
    THEN Rat(lhs.v * rhs.d + rhs.v * lhs.d, lhs.d * rhs.d)
    ELSE NaN

\* lhs < rhs and lhs <= rhs on JavaScript numbers; a comparison with
\* undefined or NaN is false
JsLess(lhs, rhs) ==
    lhs.k = "num" /\ rhs.k = "num" /\ lhs.v * rhs.d < rhs.v * lhs.d

JsLessEq(lhs, rhs) ==
    lhs.k = "num" /\ rhs.k = "num" /\ lhs.v * rhs.d <= rhs.v * lhs.d

\* lhs === rhs: the same number, the same string or the same object; NaN
\* equals nothing
JsStrictEq(lhs, rhs) == lhs.k # "nan" /\ lhs = rhs

\* ~rhs: the operand is truncated to a 32-bit integer (every integer of the
\* model is one), anything that is no number counts as 0
JsNot(rhs) ==
    IF rhs.k = "num"
    THEN LET t == Abs(rhs.v) \div rhs.d
         IN  Num(-(IF rhs.v < 0 THEN -t ELSE t) - 1)
    ELSE Num(-1)

(***************************************************************************)
(* Names and types.                                                        *)
(***************************************************************************)
Names == {"X", "P", "S", "F$"}

\* DeriveTypeNameFromVariable: the sigil-derived type name, "" for none
DeriveTypeNameFromVariable(name) == IF name = "F$" THEN "STRING" ELSE ""

\* createInstance of a scalar type: its canonical zero value
createInstance(type) == IF type = "STRING" THEN Str(0) ELSE Num(0)

\* IsNumericType of Types.ts
IsNumericType(type) == type \in {"INTEGER", "LONG", "SINGLE", "DOUBLE"}

(***************************************************************************)
(* Strings.  Str(i) is the i-th string of Texts, Str(0) the empty string;  *)
(* a string is the sequence of its characters.                             *)
(***************************************************************************)
Texts ==
    << << "4", "2" >>,
       << "c", "d", "e" >>,
       << ";" >>,
       << "," >>,
       << "\n" >>,
       << "a", "#", ",", "#", "#", "b", "#" >>,
       << ",", "#", ",", "x" >>,
       << "#", "#" >>,
       << "x", ",", "y" >> >>

Text(i) == IF i = 0 THEN <<>> ELSE Texts[i]

Digit(n) == << "0", "1", "2", "3", "4", "5", "6", "7", "8", "9" >>[n + 1]

\* the decimal digits of n >= 0
RECURSIVE Digits(_)
Digits(n) ==
    IF n < 10 THEN << Digit(n) >>
    ELSE Append(Digits(n \div 10), Digit(n % 10))

\* the digits after the decimal point of r / d, 0 <= r < d, at most k of them
RECURSIVE FractionDigits(_, _, _)
FractionDigits(r, d, k) ==
    IF r = 0 \/ k = 0 THEN <<>>
    ELSE << Digit((r * 10) \div d) >>
             \o FractionDigits((r * 10) % d, d, k - 1)

\* '' + x
JsToString(x) ==
    CASE x.k = "str" -> Text(x.v)
      [] x.k = "num" ->
             (IF x.v < 0 THEN << "-" >> ELSE <<>>)
             \o Digits(Abs(x.v) \div x.d)
             \o (IF x.d = 1 THEN <<>>
                 ELSE << "." >> \o FractionDigits(Abs(x.v) % x.d, x.d, 16))
      [] x.k = "nan" -> << "N", "a", "N" >>
      [] x.k = "null" -> << "n", "u", "l", "l" >>
      [] x.k = "ref" -> << "[", "o", "b", "j", "e", "c", "t", " ",
                           "O", "b", "j", "e", "c", "t", "]" >>
      [] OTHER -> << "u", "n", "d", "e", "f", "i", "n", "e", "d" >>

\* copy of a scalar type: a scalar value is its own deep copy
copy(type, value) == value

\* a variables object with no property set
EmptyMap == [n \in Names |-> Undefined]

(***************************************************************************)
(* Instructions and programs.                                              *)
(***************************************************************************)
I(op, n, s, locus) == [op |-> op, n |-> n, s |-> s, locus |-> locus]

\* A StackFrame object: pc and variables are its fields; id is the object's
\* identity; kind, site and depth are history (the instruction kind that
\* pushed it, that instruction's index, the call-stack depth before it).
StackFrame(id, pc, variables, kind, site, depth) ==
    [id |-> id, pc |-> pc, vars |-> variables,
     kind |-> kind, site |-> site, depth |-> depth]

\* undefined, where a StackFrame is expected
NoFrame == StackFrame(0, 0, 0, "none", 0, 0)


(***************************************************************************)
(* The VirtualMachine object after construction.  timers and pending are   *)
(* the host's side of the scheduler: the armed interval timers and the     *)
(* completion callbacks registered by suspending syscalls.  random is the  *)
(* host's random source, the values Math.random() returns next, in a       *)
(* cycle.  generated and played are history: the last value Math.random()  *)
(* returned and the calls of playMusic on the audio device, since the last *)
(* reset.  cons is the console: the strings printed, in order, and the     *)
(* cursor's column.                                                        *)
(***************************************************************************)
NoProgram == [instructions |-> <<>>, shared |-> {}, data |-> <<>>,
              defaultType |-> "", none |-> TRUE]

Program(instructions, shared, data) ==
    [instructions |-> instructions, shared |-> shared, data |-> data,
     defaultType |-> "SINGLE", none |-> FALSE]

VirtualMachine(audio) ==
    [stack |-> <<>>, pc |-> 0, callstack |-> <<>>, frame |-> NoFrame,
     instructions |-> <<>>, shared |-> {}, defaultType |-> "",
     dataPtr |-> 0, data |-> <<>>,
     asynchronous |-> FALSE, suspended |-> FALSE, interval |-> 0,
     audio |-> audio,
     lastRandomNumber |-> Num(0),
     maps |-> <<>>, cells |-> <<>>,
     timers |-> {}, pending |-> <<>>,
     cons |-> [printed |-> <<>>, x |-> 0],
     random |-> << Rat(1, 2) >>, generated |-> Undefined,
     played |-> <<>>]

(***************************************************************************)
(* Array.push / Array.pop on the operand stack: pop of an empty array      *)
(* yields undefined and leaves it empty.                                   *)
(***************************************************************************)
Push(v, x) == [v EXCEPT !.stack = Append(@, x)]
Top(v) == IF Len(v.stack) = 0 THEN Undefined ELSE v.stack[Len(v.stack)]
Pop(v) ==
    [v EXCEPT !.stack = IF Len(@) = 0 THEN @ ELSE SubSeq(@, 1, Len(@) - 1)]

Ok(v) == [v |-> v, thrown |-> NoError]
Throw(v, e) == [v |-> v, thrown |-> e]

(***************************************************************************)
(* The host's timers: setInterval arms a timer under a handle no live      *)
(* timer or stored handle uses; clearInterval of a dead handle does        *)
(* nothing.                                                                *)
(***************************************************************************)
setInterval(v) ==
    LET t == CHOOSE h \in 1..(Cardinality(v.timers) + 2) :
                 h \notin v.timers /\ h # v.interval
    IN  [v EXCEPT !.timers = @ \cup {t}, !.interval = t]

clearInterval(v, handle) == [v EXCEPT !.timers = @ \ {handle}]

(***************************************************************************)
(* The console                                                             *)
(***************************************************************************)
\* IConsole.reset
cons_reset(v) == [v EXCEPT !.cons = [printed |-> <<>>, x |-> 0]]

\* the cursor's column after the characters of str were printed at column x
RECURSIVE Column(_, _)
Column(x, str) ==
    IF str = <<>> THEN x
    ELSE Column(IF Head(str) = "\n" THEN 0 ELSE x + 1, Tail(str))

\* IConsole.print
cons_print(v, str) ==
    [v EXCEPT !.cons = [printed |-> Append(@.printed, str),
                        x |-> Column(@.x, str)]]

(***************************************************************************)
(* VirtualMachine.reset                                                    *)
(***************************************************************************)
\* reset as it would be if the main frame returned to the start of the
\* program: C13 must tell the two apart
reset_MainReturnsToStart(v, program) ==
    LET v1 == IF program.none THEN v
              ELSE [v EXCEPT !.instructions = program.instructions,
                             !.defaultType = program.defaultType,
                             !.data = program.data,
                             !.shared = program.shared]
        main == StackFrame(1, 0, 1, "main", 0, 0)
        v2 == [v1 EXCEPT !.stack = <<>>,
                         !.callstack = <<main>>,
                         !.frame = main,
                         !.maps = <<EmptyMap>>,
                         !.cells = <<>>,
                         !.dataPtr = 0,
                         !.suspended = FALSE]
        v3 == IF v2.interval # 0
              THEN [clearInterval(v2, v2.interval) EXCEPT !.interval = 0]
              ELSE v2
    IN  cons_reset([v3 EXCEPT !.pc = 0])

reset(v, program) ==
    LET v1 == IF program.none THEN v
              ELSE [v EXCEPT !.instructions = program.instructions,
                             !.defaultType = program.defaultType,
                             !.data = program.data,
                             !.shared = program.shared]
        main == StackFrame(1, Len(v1.instructions), 1, "main", 0, 0)
        v2 == [v1 EXCEPT !.stack = <<>>,
                         !.callstack = <<main>>,
                         !.frame = main,
                         !.maps = <<EmptyMap>>,
                         !.cells = <<>>,
                         !.dataPtr = 0,
                         !.suspended = FALSE]
        v3 == IF v2.interval # 0
              THEN [clearInterval(v2, v2.interval) EXCEPT !.interval = 0]
              ELSE v2
    IN  cons_reset([v3 EXCEPT !.pc = 0])

(***************************************************************************)
(* VirtualMachine.suspend                                                  *)
(***************************************************************************)
suspend(v) ==
    LET v1 == [v EXCEPT !.suspended = TRUE]
    IN  IF v1.asynchronous THEN clearInterval(v1, v1.interval) ELSE v1


(***************************************************************************)
(* VirtualMachine.getVariable and setVariable.  callstack[0] of an empty   *)
(* call stack, and vm.frame after the last frame was popped, are           *)
(* undefined: reading .variables of them throws a TypeError.               *)
(***************************************************************************)
\* the frame a name is looked up in, as it would be if the shared set were
\* not consulted: C11 must tell the two apart
ResolveFrame_CurrentOnly(v, name) == v.frame

ResolveFrame(v, name) ==
    IF name \in v.shared
    THEN IF Len(v.callstack) = 0 THEN NoFrame ELSE v.callstack[1]
    ELSE v.frame

\* getVariable as it would be if it created a variable at every lookup: C37
\* must tell the two apart
getVariable_AlwaysFresh(v, name) ==
    LET frame == ResolveFrame(v, name)
    IN  IF frame = NoFrame
        THEN [v |-> v, val |-> Undefined, thrown |-> TypeError]
        ELSE LET typeName == DeriveTypeNameFromVariable(name)
                 type == IF typeName = "" THEN v.defaultType ELSE typeName
                 c == Len(v.cells) + 1
                 scalar == [type |-> type, value |-> createInstance(type)]
             IN  [v |-> [v EXCEPT !.cells = Append(@, scalar),
                                  !.maps[frame.vars][name] = Ref(c)],
                  val |-> Ref(c), thrown |-> NoError]

getVariable(v, name) ==
    LET frame == ResolveFrame(v, name)
    IN  IF frame = NoFrame
        THEN [v |-> v, val |-> Undefined, thrown |-> TypeError]
        ELSE IF Truthy(v.maps[frame.vars][name])
        THEN [v |-> v, val |-> v.maps[frame.vars][name], thrown |-> NoError]
        ELSE LET typeName == DeriveTypeNameFromVariable(name)
                 type == IF typeName = "" THEN v.defaultType ELSE typeName
                 c == Len(v.cells) + 1
                 scalar == [type |-> type, value |-> createInstance(type)]
             IN  [v |-> [v EXCEPT !.cells = Append(@, scalar),
                                  !.maps[frame.vars][name] = Ref(c)],
                  val |-> Ref(c), thrown |-> NoError]

setVariable(v, name, value) ==
    LET frame == ResolveFrame(v, name)
    IN  IF frame = NoFrame THEN Throw(v, TypeError)
        ELSE Ok([v EXCEPT !.maps[frame.vars][name] = value])

\* x.value for a popped stack entry x
DotValue(v, x) ==
    CASE x.k = "undef" -> [val |-> Undefined, thrown |-> TypeError]
      [] x.k = "ref" -> [val |-> IF x.v = 0 THEN Undefined
                                  ELSE v.cells[x.v].value,
                         thrown |-> NoError]
      [] OTHER -> [val |-> Undefined, thrown |-> NoError]

(***************************************************************************)
(* Instructions: each operator is the execute function of one entry of     *)
(* the Instructions table, applied after runOneInstruction has advanced    *)
(* pc.  The result carries the machine as the function left it and the     *)
(* value it threw, if any.                                                 *)
(***************************************************************************)
\* arg is the constant: a number, or a string when the instruction says so
PUSHCONST(v, arg) == Ok(Push(v, arg))

POP(v) == Ok(Pop(v))

\* g is what getVariable(arg) returned
PushGot(g) ==
    IF g.thrown # NoError THEN Throw(g.v, g.thrown)
    ELSE Ok(Push(g.v, g.val))

PUSHREF(v, arg) == PushGot(getVariable(v, arg))

PushGotValue(g) ==
    IF g.thrown # NoError THEN Throw(g.v, g.thrown)
    ELSE Ok(Push(g.v, DotValue(g.v, g.val).val))

PUSHVALUE(v, arg) == PushGotValue(getVariable(v, arg))

PopIntoGot(g) ==
    IF g.thrown # NoError THEN Throw(g.v, g.thrown)
    ELSE IF g.val.k # "ref" THEN Throw(Pop(g.v), TypeError)
    ELSE Ok([Pop(g.v) EXCEPT !.cells[g.val.v].value = Top(g.v)])

POPVAL(v, arg) == PopIntoGot(getVariable(v, arg))

\* popvar as it would be if it bound the name to a copy of the referenced
\* variable: C12 must tell the two apart
POPVAR_ByValue(v, arg) ==
    IF Top(v).k = "ref" /\ Top(v).v # 0
    THEN setVariable([Pop(v) EXCEPT !.cells = Append(@, v.cells[Top(v).v])],
                     arg, Ref(Len(v.cells) + 1))
    ELSE setVariable(Pop(v), arg, Top(v))

POPVAR(v, arg) == setVariable(Pop(v), arg, Top(v))

ASSIGN(v) ==
    LET lhs == Top(v)
        v1 == Pop(v)
        rhs == Top(v1)
        v2 == Pop(v1)
    IN  IF lhs.k # "ref" THEN Throw(v2, TypeError)
        ELSE Ok([v2 EXCEPT !.cells[lhs.v].value =
                               copy(v2.cells[lhs.v].type, rhs)])

END(v) == Ok([v EXCEPT !.pc = Len(v.instructions)])

ADD(v) ==
    LET rhs == Top(v)
        v1 == Pop(v)
        lhs == Top(v1)
    IN  Ok(Push(Pop(v1), JsAdd(lhs, rhs)))

\* "/" as it would be without the test of the divisor: C3 must tell the two
\* apart
DIV_Untrapped(v) ==
    LET rhs == Top(v)
        v1 == Pop(v)
        lhs == Top(v1)
    IN  Ok(Push(Pop(v1), JsDiv(lhs, rhs)))

DIV(v) ==
    LET rhs == Top(v)
        v1 == Pop(v)
        lhs == Top(v1)
    IN  IF IsZero(rhs) THEN Throw(v1, DIVISION_BY_ZERO)
        ELSE Ok(Push(Pop(v1), JsDiv(lhs, rhs)))

MOD(v) ==
    LET rhs == Top(v)
        v1 == Pop(v)
        lhs == Top(v1)
    IN  IF IsZero(rhs) THEN Throw(v1, DIVISION_BY_ZERO)
        ELSE Ok(Push(Pop(v1), JsMod(lhs, rhs)))

BZ(v, arg) ==
    LET expr == Top(v)
        v1 == Pop(v)
    IN  Ok(IF ~Truthy(expr) THEN [v1 EXCEPT !.pc = arg] ELSE v1)

JMP(v, arg) == Ok([v EXCEPT !.pc = arg])

\* an id no frame that is still referenced carries
NewFrameId(v) ==
    CHOOSE i \in 1..(Len(v.callstack) + 2) :
        /\ i # v.frame.id
        /\ \A j \in 1..Len(v.callstack) : v.callstack[j].id # i

\* CALL as it would be if the callee's frame took the caller's variables
\* map: C10 must tell the two apart
CALL_SharingScope(v, arg) ==
    LET frame == StackFrame(NewFrameId(v), v.pc, v.frame.vars, "call",
                            v.pc - 1, Len(v.callstack))
    IN  Ok([v EXCEPT !.frame = frame,
                     !.callstack = Append(@, frame),
                     !.pc = arg])

CALL(v, arg) ==
    LET m == Len(v.maps) + 1
        frame == StackFrame(NewFrameId(v), v.pc, m, "call", v.pc - 1,
                            Len(v.callstack))
    IN  Ok([v EXCEPT !.maps = Append(@, EmptyMap),
                     !.frame = frame,
                     !.callstack = Append(@, frame),
                     !.pc = arg])

\* GOSUB as it would be if the subroutine's frame got a variables map of
\* its own: C9 must tell the two apart
GOSUB_OwnScope(v, arg) ==
    LET m == Len(v.maps) + 1
        frame == StackFrame(NewFrameId(v), v.pc, m, "gosub", v.pc - 1,
                            Len(v.callstack))
    IN  Ok([v EXCEPT !.maps = Append(@, EmptyMap),
                     !.frame = frame,
                     !.callstack = Append(@, frame),
                     !.pc = arg])

GOSUB(v, arg) ==
    IF v.frame = NoFrame THEN Throw(v, TypeError)
    ELSE LET oldvariables == v.frame.vars
             frame == StackFrame(NewFrameId(v), v.pc, oldvariables,
                                 "gosub", v.pc - 1, Len(v.callstack))
         IN  Ok([v EXCEPT !.frame = frame,
                          !.callstack = Append(@, frame),
                          !.pc = arg])

\* RET as it would be if the return from the main frame started the program
\* again: C35 must tell the two apart
RET_Restarting(v) ==
    IF Len(v.callstack) = 0 THEN Throw(v, STACK_UNDERFLOW)
    ELSE Ok([v EXCEPT !.callstack = SubSeq(@, 1, Len(@) - 1),
                      !.pc = IF Len(v.callstack) = 1 THEN 0
                             ELSE v.callstack[Len(v.callstack)].pc,
                      !.frame = IF Len(v.callstack) = 1 THEN NoFrame
                                ELSE v.callstack[Len(v.callstack) - 1]])

\* RET as it would be if it left vm.frame as it was: C34 must tell the two
\* apart
RET_KeepingFrame(v) ==
    IF Len(v.callstack) = 0 THEN Throw(v, STACK_UNDERFLOW)
    ELSE Ok([v EXCEPT !.callstack = SubSeq(@, 1, Len(@) - 1),
                      !.pc = v.callstack[Len(v.callstack)].pc])

\* RET as it would be if it returned silently from an empty call stack:
\* C14 must tell the two apart
RET_Silent(v) ==
    IF Len(v.callstack) = 0 THEN Ok(v)
    ELSE LET n == Len(v.callstack)
             returnAddr == v.callstack[n]
             rest == SubSeq(v.callstack, 1, n - 1)
         IN  Ok([v EXCEPT !.callstack = rest,
                          !.pc = returnAddr.pc,
                          !.frame = IF n = 1 THEN NoFrame ELSE rest[n - 1]])

RET(v) ==
    IF Len(v.callstack) = 0 THEN Throw(v, STACK_UNDERFLOW)
    ELSE LET n == Len(v.callstack)
             returnAddr == v.callstack[n]
             rest == SubSeq(v.callstack, 1, n - 1)
         IN  Ok([v EXCEPT !.callstack = rest,
                          !.pc = returnAddr.pc,
                          !.frame = IF n = 1 THEN NoFrame ELSE rest[n - 1]])

\* vm.stack[vm.stack.length - k]: undefined outside the array
FromTop(v, k) ==
    IF k >= 1 /\ k <= Len(v.stack) THEN v.stack[Len(v.stack) - k + 1]
    ELSE Undefined

\* forloop as it would be if only ascending loops ended: C15 must tell the
\* two apart
FORLOOP_Ascending(v, arg) ==
    IF JsLess(Num(0), FromTop(v, 2)) /\ JsLess(FromTop(v, 3), FromTop(v, 1))
    THEN Ok([v EXCEPT !.stack = SubSeq(@, 1, Len(@) - 3), !.pc = arg])
    ELSE Ok(Pop(v))

\* the branch that shortens the stack by 3 is taken only when end, the
\* third entry from the top, is a number
FORLOOP(v, arg) ==
    LET counter == FromTop(v, 1)
        step == FromTop(v, 2)
        end == FromTop(v, 3)
    IN  IF \/ JsLess(step, Num(0)) /\ JsLess(counter, end)
           \/ JsLess(Num(0), step) /\ JsLess(end, counter)
        THEN Ok([v EXCEPT !.stack = SubSeq(@, 1, Len(@) - 3), !.pc = arg])
        ELSE Ok(Pop(v))

RESTORE(v, arg) == Ok([v EXCEPT !.dataPtr = arg])

UNARY_OP(v, arg) ==
    LET rhs == Top(v)
        value == IF arg = "NOT" THEN JsNot(rhs) ELSE Undefined
    IN  Ok(Push(Pop(v), value))

\* -1 or 0, the BASIC truth values
Truth(b) == IF b THEN Num(-1) ELSE Num(0)

EQ(v) == Ok(Push(Pop(Pop(v)), Truth(JsStrictEq(Top(v), Top(Pop(v))))))

NE(v) == Ok(Push(Pop(Pop(v)), Truth(~JsStrictEq(Top(v), Top(Pop(v))))))

\* "<" as it would be with the operands taken in the other order: C16 must
\* tell the two apart
LT_Swapped(v) ==
    LET lhs == Top(v)
        rhs == Top(Pop(v))
    IN  Ok(Push(Pop(Pop(v)), Truth(JsLess(lhs, rhs))))

LT(v) ==
    LET rhs == Top(v)
        lhs == Top(Pop(v))
    IN  Ok(Push(Pop(Pop(v)), Truth(JsLess(lhs, rhs))))

LE(v) ==
    LET rhs == Top(v)
        lhs == Top(Pop(v))
    IN  Ok(Push(Pop(Pop(v)), Truth(JsLessEq(lhs, rhs))))

GT(v) ==
    LET rhs == Top(v)
        lhs == Top(Pop(v))
    IN  Ok(Push(Pop(Pop(v)), Truth(JsLess(rhs, lhs))))

GE(v) ==
    LET rhs == Top(v)
        lhs == Top(Pop(v))
    IN  Ok(Push(Pop(Pop(v)), Truth(JsLessEq(rhs, lhs))))


(***************************************************************************)
(* Suspending syscalls.  Each registers a completion callback with the     *)
(* host; a callback record keeps what its closure does and captured:       *)
(* INPUT stores the line in its first argument and calls vm.resume(), KEY  *)
(* is the console's key slot and RESUME a closure that only calls          *)
(* vm.resume().  stale is history: the callback was registered before the  *)
(* last reset.                                                             *)
(***************************************************************************)
Callback(kind, target) == [kind |-> kind, target |-> target, stale |-> FALSE]

Register(v, cb) == [v EXCEPT !.pending = Append(@, cb)]

\* Console.onKey(-1, callback): one slot, a new callback replaces the old
onKey(v, cb) ==
    LET keep == SelectSeq(v.pending, LAMBDA c : c.kind # "KEY")
    IN  [v EXCEPT !.pending = Append(keep, cb)]

\* i < argCount for the count popped from the stack
Count(argCount) ==
    IF argCount.k = "num" /\ argCount.v > 0
    THEN IF argCount.d = 1 THEN argCount.v ELSE (argCount.v \div argCount.d) + 1
    ELSE 0

\* argCount > n for the count popped from the stack
MoreThan(argCount, n) == argCount.k = "num" /\ argCount.v > n * argCount.d

SLEEP(v) ==
    LET argCount == Top(v)
        v1 == suspend(Pop(v))
        sleep == DotValue(v1, Top(v1))
    IN  IF argCount = Num(1)
        THEN IF sleep.thrown # NoError THEN Throw(Pop(v1), sleep.thrown)
             ELSE Ok(Register(Pop(v1), Callback("RESUME", Undefined)))
        ELSE Ok(onKey(v1, Callback("KEY", Undefined)))

INPUT(v) ==
    LET argCount == Top(v)
        v1 == Pop(v)
        n == Count(argCount)
        m == Len(v1.stack)
        first == IF n = 0 THEN Undefined
                 ELSE IF n > m THEN Undefined
                 ELSE v1.stack[m - n + 1]
        v2 == [v1 EXCEPT !.stack = IF n >= m THEN <<>> ELSE SubSeq(@, 1, m - n)]
    IN  Ok(Register(suspend(v2), Callback("INPUT", first)))

YIELD(v) == Ok(Register(suspend(v), Callback("RESUME", Undefined)))

\* IAudioDevice.playMusic(music, repeat)
playMusic(v, music, repeat) ==
    [v EXCEPT !.played = Append(@, [music |-> music, repeat |-> repeat])]

\* what PLAY and BGMPLAY pop: the argument count, then music, then, when the
\* count is more than 1, repeat
MusicArgs(v) ==
    LET argCount == Top(v)
        v1 == Pop(v)
        music == DotValue(v1, Top(v1))
        v2 == Pop(v1)
        repeat == DotValue(v2, Top(v2))
        two == MoreThan(argCount, 1)
        v3 == IF two THEN Pop(v2) ELSE v2
    IN  IF music.thrown # NoError
        THEN [v |-> v2, thrown |-> music.thrown,
              music |-> Undefined, repeat |-> Undefined]
        ELSE IF two /\ repeat.thrown # NoError
        THEN [v |-> v3, thrown |-> repeat.thrown,
              music |-> Undefined, repeat |-> Undefined]
        ELSE [v |-> v3, thrown |-> NoError, music |-> music.val,
              repeat |-> IF two THEN repeat.val ELSE Undefined]

\* a is what MusicArgs returned
PlayWith(a) ==
    IF a.thrown # NoError THEN Throw(a.v, a.thrown)
    ELSE IF a.v.audio
    THEN Ok(Register(playMusic(suspend(a.v), a.music,
                               IF Truthy(a.repeat) THEN a.repeat ELSE Num(1)),
                     Callback("RESUME", Undefined)))
    ELSE Ok(a.v)

PLAY(v) == PlayWith(MusicArgs(v))

BgmPlayWith(a) ==
    IF a.thrown # NoError THEN Throw(a.v, a.thrown)
    ELSE IF a.v.audio THEN Ok(playMusic(a.v, a.music, a.repeat))
    ELSE Ok(a.v)

BGMPLAY(v) == BgmPlayWith(MusicArgs(v))

\* Math.random(): the next value of the host's random source
Math_random(v) ==
    [v EXCEPT !.random = Tail(@) \o << Head(@) >>,
              !.generated = Head(v.random)]

\* v2 is the machine after RND's arguments were popped
RndPush(v2, n) ==
    IF IsZero(n) THEN Ok(Push(v2, v2.lastRandomNumber))
    ELSE Ok(Push(Math_random(v2), Head(v2.random)))

RND(v) ==
    IF Top(v) = Num(1) THEN RndPush(Pop(Pop(v)), Top(Pop(v)))
    ELSE RndPush(Pop(v), Num(1))

SPSET(v) ==
    LET v0 == suspend(v)
        argCount == Top(v0)
        v1 == Pop(v0)
        three == MoreThan(argCount, 2)
        frames == DotValue(v1, Top(v1))
        v2 == IF three THEN Pop(v1) ELSE v1
        image == DotValue(v2, Top(v2))
        v3 == Pop(v2)
        spriteNum == DotValue(v3, Top(v3))
        v4 == Pop(v3)
    IN  IF three /\ frames.thrown # NoError THEN Throw(v2, frames.thrown)
        ELSE IF image.thrown # NoError THEN Throw(v3, image.thrown)
        ELSE IF spriteNum.thrown # NoError THEN Throw(v4, spriteNum.thrown)
        ELSE Ok(Register(v4, Callback("RESUME", Undefined)))

\* the n entries READ pops, as args.unshift(vm.stack.pop()) leaves them
\* if it pushed them in the order popped: C17 must tell the two apart
ReadArgs_Reversed(v, n) ==
    [i \in 1..n |-> FromTop(v, i)]

\* the n entries READ pops, in the order args.unshift(vm.stack.pop()) leaves
\* them: the deepest first
ReadArgs(v, n) ==
    [i \in 1..n |-> FromTop(v, n - i + 1)]

\* vm.data[p]: undefined past the end of the data
DataAt(v, p) ==
    IF p >= 0 /\ p < Len(v.data) THEN v.data[p + 1] ELSE Undefined

\* READ's second loop, from args[i - 1] on
RECURSIVE ReadLoop(_, _, _)
ReadLoop(v, args, i) ==
    IF i > Len(args) THEN Ok(v)
    ELSE IF args[i].k # "ref" THEN Throw(v, TypeError)
    ELSE ReadLoop(
             [v EXCEPT !.dataPtr = @ + 1,
                       !.cells[args[i].v].value =
                           IF DataAt(v, v.dataPtr) = Null
                           THEN createInstance(v.cells[args[i].v].type)
                           ELSE DataAt(v, v.dataPtr)],
             args, i + 1)

\* v1 is the machine after argCount was popped, n the number of arguments
ReadPopped(v1, n) ==
    ReadLoop([v1 EXCEPT !.stack = IF n >= Len(@) THEN <<>>
                                  ELSE SubSeq(@, 1, Len(@) - n)],
             ReadArgs(v1, n), 1)

READ(v) == ReadPopped(Pop(v), Count(Top(v)))

\* the first position from pos on that holds neither '#' nor ',', which is
\* where both of print_using's inner loops stop
RECURSIVE FieldEnd(_, _)
FieldEnd(formatString, pos) ==
    IF pos > Len(formatString) \/ formatString[pos] \notin {"#", ","}
    THEN pos
    ELSE FieldEnd(formatString, pos + 1)

\* digitCount: the '#' among the positions from pos up to end
RECURSIVE DigitCount(_, _, _)
DigitCount(formatString, pos, end) ==
    IF pos >= end THEN 0
    ELSE (IF formatString[pos] = "#" THEN 1 ELSE 0)
         + DigitCount(formatString, pos + 1, end)

\* the argument's string as it would be if it were aligned to the left:
\* C20 must tell the two apart
Fit_LeftAligned(argAsString, digitCount) ==
    IF Len(argAsString) > digitCount
    THEN SubSeq(argAsString, 1, digitCount)
    ELSE argAsString \o [i \in 1..(digitCount - Len(argAsString)) |-> " "]

\* the argument's string truncated or padded to digitCount characters
Fit(argAsString, digitCount) ==
    IF Len(argAsString) > digitCount
    THEN SubSeq(argAsString, Len(argAsString) - digitCount + 1,
                Len(argAsString))
    ELSE [i \in 1..(digitCount - Len(argAsString)) |-> " "] \o argAsString

\* print_using's last inner loop: what the positions from pos up to end add
\* to the output, curDigit being the next character of argAsString
RECURSIVE FieldOutput(_, _, _, _, _)
FieldOutput(formatString, pos, end, argAsString, curDigit) ==
    IF pos >= end THEN <<>>
    ELSE IF formatString[pos] = "#"
    THEN << argAsString[curDigit] >>
         \o FieldOutput(formatString, pos + 1, end, argAsString, curDigit + 1)
    ELSE << "," >>
         \o FieldOutput(formatString, pos + 1, end, argAsString, curDigit)

\* args[curArg] of print_using, for the stack entry x: its type and value
UsingArg(v, x) ==
    IF x.k = "ref" /\ x.v # 0 THEN v.cells[x.v]
    ELSE [type |-> IF x.k = "undef" THEN "undefined" ELSE "",
          value |-> Undefined]

\* print_using's outer loop from pos on (positions count from 1, curArg
\* from 0): the output, or the TypeError of reading args[curArg].type
RECURSIVE Using(_, _, _, _, _)
Using(formatString, args, pos, curArg, output) ==
    IF pos > Len(formatString) THEN [output |-> output, thrown |-> NoError]
    ELSE IF formatString[pos] # "#"
    THEN Using(formatString, args, pos + 1, curArg,
               Append(output, formatString[pos]))
    ELSE IF curArg = Len(args)
    THEN [output |-> output, thrown |-> NoError]
    ELSE IF args[curArg + 1].type = "undefined"
    THEN [output |-> output, thrown |-> TypeError]
    ELSE IF ~IsNumericType(args[curArg + 1].type)
    THEN [output |-> output, thrown |-> NoError]
    ELSE Using(formatString, args, FieldEnd(formatString, pos), curArg + 1,
               output \o FieldOutput(
                   formatString, pos, FieldEnd(formatString, pos),
                   Fit(JsToString(args[curArg + 1].value),
                       DigitCount(formatString, pos,
                                  FieldEnd(formatString, pos))),
                   1))

\* the spaces print_using prints for the terminator ',' at column x
Spaces(x) == [i \in 1..(13 - (x % 14)) |-> " "]

\* print_using after its output u was formatted
UsingPrint(v, terminator, u) ==
    IF u.thrown # NoError THEN Throw(v, u.thrown)
    ELSE IF terminator = Str(4)
    THEN Ok(cons_print(cons_print(v, u.output),
                       Spaces(cons_print(v, u.output).cons.x)))
    ELSE IF terminator # Str(3)
    THEN Ok(cons_print(cons_print(v, u.output), << "\n" >>))
    ELSE Ok(cons_print(v, u.output))

\* print_using after argCount, the terminator and the args were popped:
\* args[0] is the format
UsingPopped(v, terminator, args) ==
    IF args = <<>> \/ args[1].k = "undef" THEN Throw(v, TypeError)
    ELSE IF DotValue(v, args[1]).val.k \in {"undef", "null"}
    THEN Throw(v, TypeError)
    ELSE UsingPrint(v, terminator,
             Using(IF DotValue(v, args[1]).val.k = "str"
                   THEN Text(DotValue(v, args[1]).val.v) ELSE <<>>,
                   [i \in 1..(Len(args) - 1) |-> UsingArg(v, args[i + 1])],
                   1, 0, <<>>))

\* v2 is the machine after argCount and the terminator were popped, n the
\* number of args
UsingArgs(v2, terminator, n) ==
    UsingPopped([v2 EXCEPT !.stack = IF n >= Len(@) THEN <<>>
                                     ELSE SubSeq(@, 1, Len(@) - n)],
                terminator, ReadArgs(v2, n))

print_using(v) ==
    UsingArgs(Pop(Pop(v)), Top(Pop(v)),
              IF Top(v).k = "num"
              THEN Count([Top(v) EXCEPT !.v = @ - Top(v).d]) ELSE 0)

\* the 'print' and 'print_comma' arms of SYSCALL
print(v) == Ok(cons_print(Pop(v), JsToString(Top(v))))

print_comma(v) == Ok(cons_print(v, Spaces(v.cons.x)))

SYSCALL(v, arg) ==
    CASE arg = "print" -> print(v)
      [] arg = "print_comma" -> print_comma(v)
      [] arg = "SLEEP" -> SLEEP(v)
      [] arg = "INPUT" -> INPUT(v)
      [] arg = "YIELD" -> YIELD(v)
      [] arg = "PLAY" -> PLAY(v)
      [] arg = "SPSET" -> SPSET(v)
      [] arg = "READ" -> READ(v)
      [] arg = "BGMPLAY" -> BGMPLAY(v)
      [] arg = "RND" -> RND(v)
      [] arg = "print_using" -> print_using(v)
      [] OTHER -> Throw(v, UKNOWN_SYSCALL)

\* instr.instr.execute(this, instr.arg)
execute(v, instr) ==
    CASE instr.op = "pushconst" ->
             PUSHCONST(v, IF instr.s = "STRING" THEN Str(instr.n)
                          ELSE Num(instr.n))
      [] instr.op = "pop" -> POP(v)
      [] instr.op = "pushref" -> PUSHREF(v, instr.s)
      [] instr.op = "pushvalue" -> PUSHVALUE(v, instr.s)
      [] instr.op = "popval" -> POPVAL(v, instr.s)
      [] instr.op = "popvar" -> POPVAR(v, instr.s)
      [] instr.op = "assign" -> ASSIGN(v)
      [] instr.op = "end" -> END(v)
      [] instr.op = "+" -> ADD(v)
      [] instr.op = "/" -> DIV(v)
      [] instr.op = "mod" -> MOD(v)
      [] instr.op = "bz" -> BZ(v, instr.n)
      [] instr.op = "jmp" -> JMP(v, instr.n)
      [] instr.op = "call" -> CALL(v, instr.n)
      [] instr.op = "gosub" -> GOSUB(v, instr.n)
      [] instr.op = "ret" -> RET(v)
      [] instr.op = "forloop" -> FORLOOP(v, instr.n)
      [] instr.op = "restore" -> RESTORE(v, instr.n)
      [] instr.op = "unary_op" -> UNARY_OP(v, instr.s)
      [] instr.op = "=" -> EQ(v)
      [] instr.op = "<>" -> NE(v)
      [] instr.op = "<" -> LT(v)
      [] instr.op = "<=" -> LE(v)
      [] instr.op = ">" -> GT(v)
      [] instr.op = ">=" -> GE(v)
      [] instr.op = "syscall" -> SYSCALL(v, instr.s)

(***************************************************************************)
(* VirtualMachine.runOneInstruction: a RuntimeError is rethrown with the   *)
(* instruction's locus; the catch block has no other branch.               *)
(***************************************************************************)
NoThrow == [code |-> NoError, locus |-> 0]

Rethrow(e, instr) ==
    IF e > 0 THEN [code |-> e, locus |-> instr.locus] ELSE NoThrow

\* the try block's outcome r for instruction instr
Caught(r, instr) ==
    [v |-> r.v, thrown |-> Rethrow(r.thrown, instr), raised |-> r.thrown]

runOneInstruction(v) ==
    Caught(execute([v EXCEPT !.pc = @ + 1], v.instructions[v.pc + 1]),
           v.instructions[v.pc + 1])


(***************************************************************************)
(* VirtualMachine.run, resume and runSome.  runSome's for loop is taken    *)
(* one iteration at a time: runSomeLoop is its condition, runSomeBody one  *)
(* iteration with the catch block, runSomeExit the statement after it.     *)
(***************************************************************************)
run(v, program, synchronous) ==
    LET v1 == [reset(v, program) EXCEPT !.asynchronous = ~synchronous]
    IN  IF synchronous THEN v1 ELSE setInterval(v1)

runLoop(v) == v.pc < Len(v.instructions)

\* one iteration of run's while loop, and the catch block around the loop
runCatch(r) ==
    [v |-> r.v, raised |-> r.raised,
     thrown |-> r.thrown.code # NoError,
     emitted |-> IF r.thrown.code # NoError THEN <<r.thrown>> ELSE <<>>]

runBody(v) == runCatch(runOneInstruction(v))

\* runSome's loop condition as it would be without the test of suspended:
\* C4 must tell the two apart
\* runSome's loop condition as it would be without the quantum: C22 must
\* tell the two apart
runSomeLoop_Unbounded(v, i) ==
    v.pc < Len(v.instructions) /\ ~v.suspended

runSomeLoop_IgnoringSuspended(v, i) ==
    i < Quantum /\ v.pc < Len(v.instructions)

runSomeLoop(v, i) ==
    i < Quantum /\ v.pc < Len(v.instructions) /\ ~v.suspended

runSomeCatch(r) ==
    IF r.thrown.code # NoError
    THEN [v |-> suspend(r.v), raised |-> r.raised, thrown |-> TRUE,
          emitted |-> <<r.thrown>>]
    ELSE [v |-> r.v, raised |-> r.raised, thrown |-> FALSE,
          emitted |-> <<>>]

runSomeBody(v) == runSomeCatch(runOneInstruction(v))

runSomeExit(v) ==
    IF v.pc = Len(v.instructions) THEN clearInterval(v, v.interval) ELSE v

\* resume up to its call of runSome
resumeEnter(v) == [v EXCEPT !.suspended = FALSE]

\* resume after its call of runSome
resumeExit(v) == setInterval(v)

(***************************************************************************)
(* Programs the host may load.                                             *)
(***************************************************************************)
Dividends == {-7, 0, 6}
Divisors == {0, 4}

DivProg(a, b, op) ==
    Program(<< I("pushconst", a, "", 1), I("pushconst", b, "", 1),
               I(op, 0, "", 1), I("pushconst", 1, "", 2) >>, {}, <<>>)

\* an assignment to a non-variable, then a syscall that does not exist
ErrProg ==
    Program(<< I("pushconst", 1, "", 1), I("assign", 0, "", 1),
               I("syscall", 0, "NOSUCH", 2), I("pushconst", 2, "", 3) >>,
            {}, <<>>)

\* WAIT twice, then a busy loop
YieldProg ==
    Program(<< I("syscall", 0, "YIELD", 1), I("syscall", 0, "YIELD", 2),
               I("pushconst", 1, "", 3), I("pop", 0, "", 3),
               I("jmp", 2, "", 4) >>, {}, <<>>)

\* INPUT X : SLEEP X : SLEEP : PLAY X : SPSET X, X
IOProg ==
    Program(<< I("pushref", 0, "X", 1), I("pushconst", 1, "", 1),
               I("syscall", 0, "INPUT", 1),
               I("pushref", 0, "X", 2), I("pushconst", 1, "", 2),
               I("syscall", 0, "SLEEP", 2),
               I("pushconst", 0, "", 3), I("syscall", 0, "SLEEP", 3),
               I("pushref", 0, "X", 4), I("pushconst", 1, "", 4),
               I("syscall", 0, "PLAY", 4),
               I("pushref", 0, "X", 5), I("pushref", 0, "X", 5),
               I("pushconst", 2, "", 5), I("syscall", 0, "SPSET", 5) >>,
            {}, <<>>)

\* X = 3 : GOSUB L : ... : RETURN : L: P = 5 : (X rebound to P) : GOSUB M :
\* RETURN : M: S = 1 : RETURN  (the RETURN of the main program pops the
\* main frame)
GosubProg ==
    Program(<< I("pushconst", 3, "", 1), I("popval", 0, "X", 1),
               I("gosub", 6, "", 2),
               I("pushvalue", 0, "X", 3), I("pop", 0, "", 3),
               I("ret", 0, "", 4),
               I("pushconst", 5, "", 5), I("popval", 0, "P", 5),
               I("pushref", 0, "P", 6), I("popvar", 0, "X", 6),
               I("gosub", 12, "", 7), I("ret", 0, "", 8),
               I("pushconst", 1, "", 9), I("popval", 0, "S", 9),
               I("ret", 0, "", 10) >>, {"S"}, <<>>)

\* X = 3 : S X : (read X, S) : END :
\* SUB S (name): name = 5 : name = 7 (by assign) : X = 6 : S = 1 : END SUB
CallProg(name) ==
    Program(<< I("pushconst", 3, "", 1), I("popval", 0, "X", 1),
               I("pushref", 0, "X", 2), I("call", 9, "", 2),
               I("pushvalue", 0, "X", 3), I("pop", 0, "", 3),
               I("pushvalue", 0, "S", 3), I("pop", 0, "", 3),
               I("end", 0, "", 4),
               I("popvar", 0, name, 5),
               I("pushconst", 5, "", 6), I("popval", 0, name, 6),
               I("pushconst", 7, "", 7), I("pushref", 0, name, 7),
               I("assign", 0, "", 7),
               I("pushconst", 6, "", 8), I("popval", 0, "X", 8),
               I("pushconst", 1, "", 9), I("popval", 0, "S", 9),
               I("ret", 0, "", 10) >>, {"S"}, <<>>)

\* DEFINT A-Z : PRINT F$ : (F$ by reference, X) : END, with nothing printed
LookupProg ==
    [Program(<< I("pushvalue", 0, "F$", 1), I("pop", 0, "", 1),
                I("pushref", 0, "F$", 2), I("pushvalue", 0, "X", 2),
                I("pop", 0, "", 2), I("pop", 0, "", 2) >>, {}, <<>>)
        EXCEPT !.defaultType = "INTEGER"]

Programs ==
    { DivProg(a, b, op) : a \in Dividends, b \in Divisors, op \in {"/", "mod"} }
    \cup { ErrProg, YieldProg, IOProg, GosubProg, LookupProg }
    \cup { CallProg(name) : name \in {"X", "P"} }

\* what the user may type at an INPUT prompt
Inputs == { Str(1) }

(***************************************************************************)
(* The state machine.  last and faulted are history.  last: the handler    *)
(* step just taken, the machine and the position before it, what execute   *)
(* threw, the error events emitted and the callback that fired.  faulted:  *)
(* an error event was emitted and the host has neither reset nor resumed   *)
(* the machine since.                                                      *)
(***************************************************************************)
Idle == [at |-> "idle", i |-> 0, from |-> "none"]

NoCallback == [kind |-> "none", target |-> Undefined, stale |-> FALSE]

Last(act, pre, raised, emitted, cb) ==
    [act |-> act, pre |-> pre, at |-> ctx, raised |-> raised,
     emitted |-> emitted, cb |-> cb]

\* no parser has been constructed
NoParser == [at |-> "none"]

Init ==
    /\ vm \in { VirtualMachine(audio) : audio \in BOOLEAN }
    /\ ctx = Idle
    /\ last = Last("init", vm, NoError, <<>>, NoCallback)
    /\ faulted = FALSE
    /\ parser = NoParser

\* a reset leaves the callbacks of earlier syscalls outstanding; the cells
\* they captured are no longer reachable from the machine.  The history
\* kept in the machine starts afresh.
Outlive(v) ==
    [v EXCEPT !.pending =
        [k \in 1..Len(@) |->
            [@[k] EXCEPT !.stale = TRUE,
                         !.target = IF @.k = "ref" THEN Ref(0) ELSE @]],
              !.generated = Undefined,
              !.played = <<>>]

\* the host calls vm.reset(program)
Reset(program) ==
    /\ ctx.at = "idle"
    /\ Len(vm.pending) < MaxPending
    /\ vm' = Outlive(reset(vm, program))
    /\ ctx' = Idle
    /\ last' = Last("reset", vm', NoError, <<>>, NoCallback)
    /\ faulted' = FALSE
    /\ UNCHANGED parser

\* the host calls vm.run(program, synchronous)
Run(program, synchronous) ==
    /\ ctx.at = "idle"
    /\ Len(vm.pending) < MaxPending
    /\ synchronous \/ Cardinality(vm.timers \ {vm.interval}) < MaxTimers
    /\ vm' = Outlive(run(vm, program, synchronous))
    /\ ctx' = IF synchronous /\ runLoop(vm')
              THEN [at |-> "run", i |-> 0, from |-> "none"] ELSE Idle
    /\ last' = Last("run", vm', NoError, <<>>, NoCallback)
    /\ faulted' = FALSE
    /\ UNCHANGED parser

\* run's while loop executes the next instruction
RunStep ==
    /\ ctx.at = "run"
    /\ \E b \in {runBody(vm)} :
           /\ vm' = b.v
           /\ ctx' = IF ~b.thrown /\ runLoop(b.v) THEN ctx ELSE Idle
           /\ last' = Last("runStep", vm, b.raised, b.emitted, NoCallback)
           /\ faulted' = (faulted \/ b.emitted # <<>>)
           /\ UNCHANGED parser

\* the position after runSome's loop condition was evaluated on v
Continue(v, i, from) ==
    IF runSomeLoop(v, i)
    THEN [vm |-> v, ctx |-> [at |-> "runSome", i |-> i, from |-> from],
          resumed |-> TRUE]
    ELSE [vm |-> IF from = "resume" THEN resumeExit(runSomeExit(v))
                 ELSE runSomeExit(v),
          ctx |-> Idle, resumed |-> TRUE]

\* an armed interval timer fires: runSome is called
Tick(t) ==
    /\ ctx.at = "idle"
    /\ t \in vm.timers
    /\ \E c \in {Continue(vm, 0, "tick")} :
           /\ vm' = c.vm
           /\ ctx' = c.ctx
           /\ last' = Last("tick", vm, NoError, <<>>, NoCallback)
           /\ UNCHANGED faulted
           /\ UNCHANGED parser

\* runSome's for loop executes the next instruction
RunSomeStep ==
    /\ ctx.at = "runSome"
    /\ \E b \in {runSomeBody(vm)} :
       \E c \in {Continue(b.v, ctx.i + 1, ctx.from)} :
           /\ vm' = c.vm
           /\ ctx' = c.ctx
           /\ last' = Last("runSomeStep", vm, b.raised, b.emitted, NoCallback)
           /\ faulted' = (faulted \/ b.emitted # <<>>)
           /\ UNCHANGED parser

\* VirtualMachine.resume, up to the position after runSome's first loop test
resume(v) ==
    IF resumeEnter(v).asynchronous THEN Continue(resumeEnter(v), 0, "resume")
    ELSE [vm |-> resumeEnter(v), ctx |-> Idle, resumed |-> TRUE]

Unregister(v, k) ==
    [v EXCEPT !.pending = SubSeq(@, 1, k - 1) \o SubSeq(@, k + 1, Len(@))]

\* the closure a suspending syscall registered: INPUT's stores the result
\* in args[0] (a TypeError when that is no variable), then all call resume
Completion(v, cb, result) ==
    IF cb.kind = "INPUT" /\ cb.target.k # "ref"
    THEN [vm |-> v, ctx |-> Idle, resumed |-> FALSE]
    ELSE IF cb.kind = "INPUT" /\ cb.target.v # 0
    THEN resume([v EXCEPT !.cells[cb.target.v].value = result])
    ELSE resume(v)

\* the completion callback of a suspending syscall fires
Complete(k, result) ==
    /\ ctx.at = "idle"
    /\ k \in 1..Len(vm.pending)
    /\ Cardinality(vm.timers) < MaxTimers
    /\ \E c \in {Completion(Unregister(vm, k), vm.pending[k], result)} :
           /\ vm' = c.vm
           /\ ctx' = c.ctx
           /\ last' = Last("complete", vm, NoError, <<>>, vm.pending[k])
           /\ faulted' = (faulted /\ ~c.resumed)
           /\ UNCHANGED parser

Next ==
    \/ \E program \in Programs \cup {NoProgram} : Reset(program)
    \/ \E program \in Programs, synchronous \in BOOLEAN : Run(program, synchronous)
    \/ RunStep
    \/ \E t \in 1..(MaxTimers + 1) : Tick(t)
    \/ RunSomeStep
    \/ \E k \in 1..(MaxPending + 2), result \in Inputs : Complete(k, result)

Spec == Init /\ [][Next]_vars

\* the host's timers fire as long as they are armed, and a handler that was
\* entered runs to its end; the host itself need not do anything
Fairness ==
    /\ \A t \in 1..(MaxTimers + 1) : WF_vars(Tick(t))
    /\ WF_vars(RunSomeStep)
    /\ WF_vars(RunStep)

SpecLive == Spec /\ Fairness


(***************************************************************************)
(* The instruction set on its own: synchronous runs of short programs that *)
(* push operands and execute one instruction on them, and                  *)
(* Instructions.RET.execute applied to the machine as it stands.           *)
(***************************************************************************)
Ends == {-1, 0, 2}
Steps == {-1, 0, 1, 2}
Counters == {-2, -1, 0, 2, 3}

\* FOR i = counter TO end STEP step at the test of the loop, above an
\* entry that belongs to the surrounding code
ForProg(end, step, counter) ==
    Program(<< I("pushconst", 9, "", 1), I("pushconst", end, "", 1),
               I("pushconst", step, "", 1), I("pushconst", counter, "", 1),
               I("forloop", 6, "", 1), I("pushconst", 1, "", 2),
               I("pushconst", 2, "", 3) >>, {}, <<>>)

Operands == {-1, 0, 2}
Comparisons == {"=", "<>", "<", "<=", ">", ">="}

\* PRINT lhs op rhs, above an entry that belongs to the surrounding code
CmpProg(lhs, rhs, op) ==
    Program(<< I("pushconst", 9, "", 1), I("pushconst", lhs, "", 1),
               I("pushconst", rhs, "", 1), I(op, 0, "", 1),
               I("pop", 0, "", 1) >>, {}, <<>>)

NotProg(rhs) ==
    Program(<< I("pushconst", 9, "", 1), I("pushconst", rhs, "", 1),
               I("unary_op", 0, "NOT", 1), I("pop", 0, "", 1) >>, {}, <<>>)

\* what the DATA statements of a program may hold: null stands for an
\* empty entry (DATA 4,,5)
Datas == { << Num(4), Num(5), Num(6) >>, << Num(4), Null, Num(5) >>,
           << Null, Num(4) >>, << Num(4) >>, <<>> }

\* DATA ... : READ X, P : RESTORE k : READ P
ReadProg(data, k) ==
    Program(<< I("pushref", 0, "X", 1), I("pushref", 0, "P", 1),
               I("pushconst", 2, "", 1), I("syscall", 0, "READ", 1),
               I("restore", k, "", 2),
               I("pushref", 0, "P", 3), I("pushconst", 1, "", 3),
               I("syscall", 0, "READ", 3) >>, {}, data)

\* X = "cde" : P = 3 : PLAY X, P (or PLAY X; or BGMPLAY)
PlayProg(op, argCount) ==
    Program(<< I("pushconst", 2, "STRING", 1), I("popval", 0, "X", 1),
               I("pushconst", 3, "", 2), I("popval", 0, "P", 2),
               I("pushref", 0, "X", 3) >>
            \o (IF argCount = 2 THEN << I("pushref", 0, "P", 3) >> ELSE <<>>)
            \o << I("pushconst", argCount, "", 3), I("syscall", 0, op, 3),
                  I("pushconst", 1, "", 4) >>, {}, <<>>)

\* PRINT RND; RND(0); RND(2); RND(0), the values left on the stack
RndProg ==
    Program(<< I("pushconst", 0, "", 1), I("syscall", 0, "RND", 1),
               I("pushconst", 0, "", 1), I("pushconst", 1, "", 1),
               I("syscall", 0, "RND", 1),
               I("pushconst", 2, "", 1), I("pushconst", 1, "", 1),
               I("syscall", 0, "RND", 1),
               I("pushconst", 0, "", 1), I("pushconst", 1, "", 1),
               I("syscall", 0, "RND", 1) >>, {}, <<>>)

\* what the host's random source may return next
Randoms == { << Rat(1, 4), Rat(3, 4) >>, << Rat(3, 4), Rat(1, 4) >> }

OpPrograms ==
    { ForProg(end, step, counter) :
          end \in Ends, step \in Steps, counter \in Counters }
    \cup { CmpProg(lhs, rhs, op) :
               lhs \in Operands, rhs \in Operands, op \in Comparisons }
    \cup { NotProg(rhs) : rhs \in Operands }
    \cup { ReadProg(data, k) : data \in Datas, k \in {0, 1} }
    \cup { PlayProg(op, argCount) :
               op \in {"PLAY", "BGMPLAY"}, argCount \in {1, 2} }
    \cup { RndProg, GosubProg }

\* Instructions.RET.execute(vm), called on the machine as it stands
ExecuteRET ==
    /\ ctx.at = "idle"
    /\ \E r \in {RET(vm)} :
           /\ vm' = r.v
           /\ ctx' = Idle
           /\ last' = Last("ret", vm, r.thrown, <<>>, NoCallback)
           /\ UNCHANGED faulted
           /\ UNCHANGED parser

NextOps ==
    \/ \E program \in OpPrograms : Run(program, TRUE)
    \/ RunStep
    \/ ExecuteRET

InitOps ==
    /\ vm \in { [VirtualMachine(audio) EXCEPT !.random = r] :
                   audio \in BOOLEAN, r \in Randoms }
    /\ ctx = Idle
    /\ last = Last("init", vm, NoError, <<>>, NoCallback)
    /\ faulted = FALSE
    /\ parser = NoParser

SpecOps == InitOps /\ [][NextOps]_vars


(***************************************************************************)
(* Vocabulary of the properties.                                           *)
(***************************************************************************)
\* the last step executed an instruction (in run's or in runSome's loop)
Executed == last.act \in {"runStep", "runSomeStep"}

\* the instruction the last step executed
Instr == last.pre.instructions[last.pre.pc + 1]

\* the completion callbacks of syscalls started since the last reset
InFlight == { k \in 1..Len(vm.pending) : ~vm.pending[k].stale }

\* W without its top element
ButLast(W) == SubSeq(W, 1, Len(W) - 1)

(***************************************************************************)
(* C1.  In both execution modes, once an instruction has raised a runtime  *)
(* error and the error event was emitted, the machine is suspended         *)
(* (suspended = true) and no handler is executing instructions, until the  *)
(* host resets or resumes it.                                              *)
(***************************************************************************)
C1_SuspendedAfterError ==
    faulted => (vm.suspended /\ ctx.at = "idle")

(***************************************************************************)
(* C2.  Every error raised inside execute, whatever its kind, produces     *)
(* exactly one error event, and the event carries the locus of the         *)
(* instruction that raised it.                                             *)
(***************************************************************************)
C2_EveryErrorSurfaces ==
    (Executed /\ last.raised # NoError) =>
        /\ Len(last.emitted) = 1
        /\ last.emitted[1].locus = Instr.locus

(***************************************************************************)
(* C3.  Executing / or MOD on two operands: when the divisor (the top of   *)
(* the stack) is 0, DIVISION_BY_ZERO (101) is raised and reported and no   *)
(* result is pushed, whatever the dividend; otherwise no error is raised   *)
(* and exactly one result replaces the two operands.                       *)
(***************************************************************************)
C3_DivisionTrap ==
    (Executed /\ Instr.op \in {"/", "mod"} /\ Len(last.pre.stack) >= 2) =>
        LET W == last.pre.stack
        IN  IF IsZero(W[Len(W)])
            THEN /\ last.raised = DIVISION_BY_ZERO
                 /\ last.emitted = << [code |-> 101, locus |-> Instr.locus] >>
                 /\ vm.stack = ButLast(W)
            ELSE /\ last.raised = NoError
                 /\ last.emitted = <<>>
                 /\ Len(vm.stack) = Len(W) - 1
                 /\ ButLast(vm.stack) = ButLast(ButLast(W))
                 /\ vm.stack[Len(vm.stack)].k \in {"num", "nan"}

C3_Witness ==
    /\ Executed
    /\ Instr.op = "mod"
    /\ Len(last.pre.stack) = 2
    /\ last.pre.stack[1] = Num(-7)
    /\ IsZero(last.pre.stack[2])
    /\ last.raised = DIVISION_BY_ZERO

(***************************************************************************)
(* C4.  runSome executes no instruction while suspended is true: an        *)
(* instruction that sets suspended ends the quantum, and a tick that fires *)
(* while suspended executes nothing and leaves pc, the operand stack and   *)
(* the call stack unchanged.                                               *)
(***************************************************************************)
C4_NoExecutionWhileSuspended ==
    /\ ctx.at = "runSome" => ~vm.suspended
    /\ last.act = "runSomeStep" => ~last.pre.suspended
    /\ (last.act = "tick" /\ last.pre.suspended) =>
           /\ ctx.at = "idle"
           /\ vm.pc = last.pre.pc
           /\ vm.stack = last.pre.stack
           /\ vm.callstack = last.pre.callstack

\* a syscall suspended the machine with part of the quantum and of the
\* program left, and the quantum ended there
C4_Witness ==
    /\ last.act = "runSomeStep"
    /\ Instr.op = "syscall"
    /\ last.at.i + 1 < Quantum
    /\ vm.pc < Len(vm.instructions)
    /\ vm.suspended
    /\ ctx.at = "idle"

(***************************************************************************)
(* C5.  In an asynchronous run at most one suspending syscall is in        *)
(* flight at any time, and the machine stays suspended from the syscall's  *)
(* suspend() until its completion callback's resume().                     *)
(***************************************************************************)
C5_OneSyscallInFlight ==
    vm.asynchronous =>
        /\ Cardinality(InFlight) <= 1
        /\ InFlight # {} => vm.suspended

(***************************************************************************)
(* C6.  A completion callback that fires after the reset that followed its *)
(* syscall is ignored: it does not clear the suspended flag, executes no   *)
(* instruction and arms no ticker.                                         *)
(***************************************************************************)
C6_StaleCallbackIgnored ==
    (last.act = "complete" /\ last.cb.stale) =>
        /\ vm.suspended = last.pre.suspended
        /\ ctx.at = "idle"
        /\ vm.pc = last.pre.pc
        /\ vm.timers = last.pre.timers

(***************************************************************************)
(* C7.  After reset(program), from any prior state: the operand stack is   *)
(* empty, the call stack holds exactly the main frame (return pc =         *)
(* |instructions|, empty variables map), which is the current frame,       *)
(* pc = 0, dataPtr = 0, suspended = false and no ticker remains armed.     *)
(***************************************************************************)
C7_ResetState ==
    last.act = "reset" =>
        /\ vm.stack = <<>>
        /\ Len(vm.callstack) = 1
        /\ vm.callstack[1].pc = Len(vm.instructions)
        /\ vm.maps[vm.callstack[1].vars] = EmptyMap
        /\ vm.frame = vm.callstack[1]
        /\ vm.pc = 0
        /\ vm.dataPtr = 0
        /\ ~vm.suspended
        /\ vm.timers = {}

(***************************************************************************)
(* C8.  resume() executes no program instruction itself: in asynchronous   *)
(* mode it only restarts the ticker, in synchronous mode it arms no        *)
(* ticker.                                                                 *)
(***************************************************************************)
C8_ResumeExecutesNothing ==
    /\ ctx.from # "resume"
    /\ last.act = "complete" =>
           /\ vm.pc = last.pre.pc
           /\ ~last.pre.asynchronous => vm.timers = last.pre.timers


(***************************************************************************)
(* C9.  A GOSUB pushes a frame whose variables map is the very map of the  *)
(* frame below it, and stays so while the frame is on the call stack; the  *)
(* matching RET restores the call-stack depth of before the GOSUB, sets pc *)
(* to the instruction after the GOSUB and makes the caller's frame         *)
(* current, with the bindings made in the body still in its map.           *)
(***************************************************************************)
\* the frame the RET of the last step popped
Returned == last.pre.callstack[Len(last.pre.callstack)]

ReturnedFrom(kind) ==
    /\ Executed
    /\ Instr.op = "ret"
    /\ Len(last.pre.callstack) > 0
    /\ Returned.kind = kind

C9_GosubSharesScope ==
    /\ \A i \in 2..Len(vm.callstack) :
           vm.callstack[i].kind = "gosub" =>
               vm.callstack[i].vars = vm.callstack[i - 1].vars
    /\ (Executed /\ Instr.op = "gosub" /\ last.raised = NoError) =>
           /\ Len(vm.callstack) = Len(last.pre.callstack) + 1
           /\ vm.frame = vm.callstack[Len(vm.callstack)]
           /\ vm.frame.vars = last.pre.frame.vars
           /\ vm.frame.pc = last.pre.pc + 1
           /\ vm.pc = Instr.n
    /\ ReturnedFrom("gosub") =>
           /\ Len(vm.callstack) = Returned.depth
           /\ vm.pc = Returned.site + 1
           /\ vm.maps = last.pre.maps
           /\ Len(vm.callstack) > 0 =>
                  /\ vm.frame = vm.callstack[Len(vm.callstack)]
                  /\ vm.frame.vars = Returned.vars

\* back in the main frame after GosubProg's subroutine, which created P and
\* rebound X to P's cell: the main frame sees both
C9_Witness ==
    /\ ReturnedFrom("gosub")
    /\ Returned.depth = 1
    /\ vm.frame.kind = "main"
    /\ vm.maps[vm.frame.vars]["P"].k = "ref"
    /\ vm.maps[vm.frame.vars]["X"] = vm.maps[vm.frame.vars]["P"]
    /\ vm.cells[vm.maps[vm.frame.vars]["X"].v].value = Num(5)

(***************************************************************************)
(* C10.  CALL a pushes a new frame with an empty variables map and return  *)
(* pc the index of the instruction after the CALL, and sets pc = a; RET    *)
(* makes the caller's frame current again with pc after the CALL.  For a   *)
(* non-shared name, creating, rebinding or assigning the name in the       *)
(* callee leaves the caller's binding of that name unchanged.              *)
(***************************************************************************)
\* the last step executed, in the frame of a CALL, a variable instruction
\* on a non-shared name
CalleeAccess ==
    /\ Executed
    /\ Instr.op \in {"pushref", "pushvalue", "popval", "popvar"}
    /\ Instr.s \notin last.pre.shared
    /\ Len(last.pre.callstack) >= 2
    /\ last.pre.frame = last.pre.callstack[Len(last.pre.callstack)]
    /\ last.pre.frame.kind = "call"

Caller == last.pre.callstack[Len(last.pre.callstack) - 1]
CallerBinding == last.pre.maps[Caller.vars][Instr.s]
CalleeBinding == last.pre.maps[last.pre.frame.vars][Instr.s]

C10_CallAndReturn ==
    /\ (Executed /\ Instr.op = "call") =>
           /\ Len(vm.callstack) = Len(last.pre.callstack) + 1
           /\ vm.frame = vm.callstack[Len(vm.callstack)]
           /\ vm.maps[vm.frame.vars] = EmptyMap
           /\ \A i \in 1..Len(last.pre.callstack) :
                  last.pre.callstack[i].vars # vm.frame.vars
           /\ vm.frame.pc = last.pre.pc + 1
           /\ vm.pc = Instr.n
    /\ ReturnedFrom("call") =>
           /\ Len(vm.callstack) = Returned.depth
           /\ vm.pc = Returned.site + 1
           /\ Len(vm.callstack) > 0 =>
                  vm.frame = vm.callstack[Len(vm.callstack)]

\* (the claim as made) ... and leaves the value of the caller's variable of
\* that name unchanged
C10_CalleeIsolated ==
    /\ C10_CallAndReturn
    /\ CalleeAccess =>
           /\ vm.maps[Caller.vars][Instr.s] = CallerBinding
           /\ CallerBinding.k = "ref" =>
                  vm.cells[CallerBinding.v] = last.pre.cells[CallerBinding.v]

\* (as amended) ... and leaves the value of the caller's variable of that
\* name unchanged unless the callee's name is bound to that very variable
C10_CalleeIsolatedUnlessAliased ==
    /\ C10_CallAndReturn
    /\ CalleeAccess =>
           /\ vm.maps[Caller.vars][Instr.s] = CallerBinding
           /\ (CallerBinding.k = "ref" /\ CalleeBinding # CallerBinding) =>
                  vm.cells[CallerBinding.v] = last.pre.cells[CallerBinding.v]

\* the callee assigned its own X, created by the assignment, while the
\* caller's X kept its cell and its value
C10_Witness ==
    /\ CalleeAccess
    /\ Instr.op = "popval"
    /\ CallerBinding.k = "ref"
    /\ CalleeBinding = Undefined
    /\ vm.maps[vm.frame.vars][Instr.s].k = "ref"
    /\ vm.maps[vm.frame.vars][Instr.s] # CallerBinding
    /\ vm.cells[vm.maps[vm.frame.vars][Instr.s].v].value = Num(6)
    /\ vm.cells[CallerBinding.v].value # Num(6)


(***************************************************************************)
(* C11.  For a name in the shared set, at every call-stack depth, pushref, *)
(* pushvalue, popval and popvar resolve the name in the variables map of   *)
(* the main frame (callstack[0]) and in no other map: every frame sees the *)
(* one variable object bound there, and what one frame wrote through the   *)
(* name is what any other frame reads through it.                          *)
(***************************************************************************)
\* the last step executed, without raising, a variable instruction on a
\* shared name
SharedAccess ==
    /\ Executed
    /\ Instr.op \in {"pushref", "pushvalue", "popval", "popvar"}
    /\ Instr.s \in last.pre.shared
    /\ Len(last.pre.callstack) >= 1
    /\ last.raised = NoError

\* the variables map of callstack[0] before the last step
MainMap == last.pre.callstack[1].vars

C11_SharedResolvesToMain ==
    SharedAccess =>
        /\ Len(vm.maps) = Len(last.pre.maps)
        /\ \A j \in 1..Len(vm.maps) :
               j # MainMap => vm.maps[j] = last.pre.maps[j]
        /\ \A n \in Names \ {Instr.s} :
               vm.maps[MainMap][n] = last.pre.maps[MainMap][n]
        /\ (Instr.op # "popvar" /\ Truthy(last.pre.maps[MainMap][Instr.s])) =>
               vm.maps[MainMap][Instr.s] = last.pre.maps[MainMap][Instr.s]
        /\ Instr.op = "pushref" =>
               vm.stack = Append(last.pre.stack, vm.maps[MainMap][Instr.s])
        /\ Instr.op = "pushvalue" =>
               vm.stack = Append(last.pre.stack,
                                 DotValue(vm, vm.maps[MainMap][Instr.s]).val)
        /\ Instr.op = "popval" =>
               /\ vm.maps[MainMap][Instr.s].k = "ref"
               /\ vm.cells[vm.maps[MainMap][Instr.s].v].value = Top(last.pre)
        /\ Instr.op = "popvar" =>
               vm.maps[MainMap][Instr.s] = Top(last.pre)

\* the main program reads through S the value the subroutine, two frames
\* deep, wrote through S
C11_Witness ==
    /\ SharedAccess
    /\ Instr.op = "pushvalue"
    /\ Len(vm.callstack) = 1
    /\ Len(vm.maps) >= 2
    /\ vm.maps[2]["S"] = Undefined
    /\ Top(vm) = Num(1)


(***************************************************************************)
(* C12.  Variables are passed by reference.  popvar binds the name to the  *)
(* very variable whose reference the caller pushed, so parameter and       *)
(* argument denote one cell; popval on a bound name and assign through a   *)
(* reference change the value of that cell and rebind nothing; RET changes *)
(* no variable.  So what the callee stored through the parameter is what   *)
(* the caller reads from its variable after RET.                           *)
(***************************************************************************)
\* the variables map the last step's instruction resolved its name in
ResolvedMap == ResolveFrame(last.pre, Instr.s).vars

\* the binding of the instruction's name before the last step
Bound == last.pre.maps[ResolvedMap][Instr.s]

C12_PassedByReference ==
    /\ (Executed /\ Instr.op = "popvar" /\ last.raised = NoError) =>
           /\ vm.maps[ResolvedMap][Instr.s] = Top(last.pre)
           /\ vm.cells = last.pre.cells
    /\ (Executed /\ Instr.op = "popval" /\ last.raised = NoError
            /\ Bound.k = "ref") =>
           /\ vm.maps = last.pre.maps
           /\ vm.cells = [last.pre.cells EXCEPT
                              ![Bound.v].value = Top(last.pre)]
    /\ (Executed /\ Instr.op = "assign" /\ Top(last.pre).k = "ref") =>
           /\ vm.maps = last.pre.maps
           /\ vm.cells = [last.pre.cells EXCEPT
                              ![Top(last.pre).v].value = Top(Pop(last.pre))]
    /\ ReturnedFrom("call") =>
           /\ vm.maps = last.pre.maps
           /\ vm.cells = last.pre.cells

\* after SUB S (P), called as S X, stored 5 and then 7 through P and 6 into
\* an X of its own, the caller reads 7 from X
C12_Witness ==
    /\ Executed
    /\ Instr.op = "pushvalue"
    /\ Instr.s = "X"
    /\ Len(vm.callstack) = 1
    /\ Len(vm.maps) >= 2
    /\ vm.maps[2]["P"] = vm.maps[1]["X"]
    /\ vm.maps[2]["X"] # vm.maps[1]["X"]
    /\ Top(vm) = Num(7)


(***************************************************************************)
(* C13.  In every reachable state in which the program has not halted      *)
(* (pc < |instructions|) the call stack is non-empty and its frame at      *)
(* index 0 is the main frame the last reset created.                       *)
(***************************************************************************)
C13_CallStackNonEmpty ==
    vm.pc < Len(vm.instructions) =>
        /\ Len(vm.callstack) >= 1
        /\ vm.callstack[1] =
               StackFrame(1, Len(vm.instructions), 1, "main", 0, 0)

\* the RET of the main program popped the main frame: the call stack is
\* empty, and the program has halted
C13_Witness ==
    /\ ReturnedFrom("main")
    /\ vm.callstack = <<>>
    /\ vm.pc = Len(vm.instructions)


(***************************************************************************)
(* C14.  RET on an empty call stack raises STACK_UNDERFLOW (202) and       *)
(* changes neither the operand stack nor the call stack; on a non-empty    *)
(* call stack it raises nothing, removes exactly the top frame, sets pc to *)
(* that frame's return pc and makes the new top frame the current one.     *)
(***************************************************************************)
\* the last step was a RET, executed by a run or called directly
Returning == (Executed /\ Instr.op = "ret") \/ last.act = "ret"

C14_ReturnOrUnderflow ==
    Returning =>
        IF last.pre.callstack = <<>>
        THEN /\ last.raised = STACK_UNDERFLOW
             /\ vm.stack = last.pre.stack
             /\ vm.callstack = <<>>
        ELSE /\ last.raised = NoError
             /\ vm.callstack = ButLast(last.pre.callstack)
             /\ vm.pc = Returned.pc
             /\ vm.stack = last.pre.stack
             /\ Len(vm.callstack) > 0 =>
                    vm.frame = vm.callstack[Len(vm.callstack)]

\* RET on the call stack the main program's RETURN had emptied
C14_Witness ==
    /\ last.act = "ret"
    /\ last.pre.callstack = <<>>
    /\ Len(last.pre.instructions) > 0
    /\ last.raised = STACK_UNDERFLOW

(***************************************************************************)
(* C15.  forloop endAddr on a stack (..., end, step, counter): when        *)
(* step > 0 and counter > end, or step < 0 and counter < end, the three    *)
(* entries are popped and pc = endAddr; in every other case only the       *)
(* counter is popped, end and step stay in place and pc is the next        *)
(* instruction.                                                            *)
(***************************************************************************)
\* the stack before the last step
Was == last.pre.stack

C15_ForLoop ==
    (Executed /\ Instr.op = "forloop" /\ Len(Was) >= 3) =>
        LET counter == Was[Len(Was)].v
            step == Was[Len(Was) - 1].v
            end == Was[Len(Was) - 2].v
        IN  /\ last.raised = NoError
            /\ IF (step > 0 /\ counter > end) \/ (step < 0 /\ counter < end)
               THEN /\ vm.stack = SubSeq(Was, 1, Len(Was) - 3)
                    /\ vm.pc = Instr.n
               ELSE /\ vm.stack = ButLast(Was)
                    /\ vm.pc = last.pre.pc + 1

\* a descending loop ran past its end
C15_Witness ==
    /\ Executed
    /\ Instr.op = "forloop"
    /\ Was = << Num(9), Num(0), Num(-1), Num(-2) >>
    /\ vm.stack = << Num(9) >>
    /\ vm.pc = Instr.n

(***************************************************************************)
(* C16.  On integer operands =, <>, <, <=, >, >= pop two operands, the     *)
(* right-hand side on top, and push -1 when the relation holds between the *)
(* left and the right operand and 0 when it does not; unary NOT replaces   *)
(* its operand x by the bitwise complement -x - 1.                         *)
(***************************************************************************)
Relation(op, lhs, rhs) ==
    CASE op = "=" -> lhs = rhs
      [] op = "<>" -> lhs # rhs
      [] op = "<" -> lhs < rhs
      [] op = "<=" -> lhs <= rhs
      [] op = ">" -> lhs > rhs
      [] op = ">=" -> lhs >= rhs

C16_Comparisons ==
    /\ (Executed /\ Instr.op \in Comparisons /\ Len(Was) >= 2) =>
           /\ last.raised = NoError
           /\ vm.stack =
                  Append(SubSeq(Was, 1, Len(Was) - 2),
                         Num(IF Relation(Instr.op, Was[Len(Was) - 1].v,
                                         Was[Len(Was)].v)
                             THEN -1 ELSE 0))
    /\ (Executed /\ Instr.op = "unary_op" /\ Instr.s = "NOT"
            /\ Len(Was) >= 1) =>
           /\ last.raised = NoError
           /\ vm.stack = Append(ButLast(Was), Num(-Was[Len(Was)].v - 1))

\* -1 < 2 holds
C16_Witness ==
    /\ Executed
    /\ Instr.op = "<"
    /\ Was = << Num(9), Num(-1), Num(2) >>
    /\ vm.stack = << Num(9), Num(-1) >>


(***************************************************************************)
(* C17.  READ with n variable references below the argument count assigns *)
(* data[dataPtr + i] to the i-th argument in source order, i = 0..n-1, and *)
(* leaves dataPtr increased by n; an argument whose DATA entry is null     *)
(* ends with the default value of its type; restore k sets dataPtr to k,   *)
(* so that the next READ starts at data[k].                                *)
(***************************************************************************)
\* the number of arguments of the READ the last step executed
ReadCount == Was[Len(Was)].v

\* its i-th argument in source order, i = 0..n-1
ReadArg(i) == Was[Len(Was) - ReadCount + i]

\* the last step executed READ on references to distinct variables
ReadDone ==
    /\ Executed
    /\ Instr.op = "syscall"
    /\ Instr.s = "READ"
    /\ Len(Was) >= 2
    /\ Was[Len(Was)].k = "num"
    /\ ReadCount \in 1..(Len(Was) - 1)
    /\ \A i \in 0..(ReadCount - 1) : ReadArg(i).k = "ref"
    /\ \A i, j \in 0..(ReadCount - 1) : i # j => ReadArg(i) # ReadArg(j)

C17_ReadAndRestore ==
    /\ ReadDone =>
           /\ last.raised = NoError
           /\ vm.dataPtr = last.pre.dataPtr + ReadCount
           /\ vm.stack = SubSeq(Was, 1, Len(Was) - ReadCount - 1)
           /\ \A i \in 0..(ReadCount - 1) :
                  vm.cells[ReadArg(i).v].value =
                      IF DataAt(last.pre, last.pre.dataPtr + i) = Null
                      THEN createInstance(vm.cells[ReadArg(i).v].type)
                      ELSE DataAt(last.pre, last.pre.dataPtr + i)
    /\ (Executed /\ Instr.op = "restore") =>
           /\ vm.dataPtr = Instr.n
           /\ vm.cells = last.pre.cells

\* DATA 4,,5 : READ X, P left X = 4 and P at its default, 0
C17_Witness ==
    /\ ReadDone
    /\ ReadCount = 2
    /\ vm.data = << Num(4), Null, Num(5) >>
    /\ vm.dataPtr = 2
    /\ vm.cells[ReadArg(0).v].value = Num(4)
    /\ vm.cells[ReadArg(1).v].value = Num(0)
    /\ vm.maps[1]["X"] = ReadArg(0)


(***************************************************************************)
(* The printing syscalls: the machine runs, synchronously, programs that   *)
(* print to the console.                                                   *)
(***************************************************************************)
Formats == {6, 7, 8, 9}
Terminators == {3, 4, 5}
UsingValues == {5, -12, 1234}
UsingNames ==
    { <<>>, << "X" >>, << "X", "P" >>, << "F$", "X" >>, << "X", "F$" >> }

\* F$ = format : X = value : P = 7 : PRINT USING F$; names, with the
\* terminator after the last of them
UsingProg(format, value, names, terminator) ==
    Program(<< I("pushconst", format, "STRING", 1), I("popval", 0, "F$", 1),
               I("pushconst", value, "", 2), I("popval", 0, "X", 2),
               I("pushconst", 7, "", 3), I("popval", 0, "P", 3),
               I("pushref", 0, "F$", 4) >>
            \o [i \in 1..Len(names) |-> I("pushref", 0, names[i], 4)]
            \o << I("pushconst", terminator, "STRING", 4),
                  I("pushconst", Len(names) + 2, "", 4),
                  I("syscall", 0, "print_using", 4) >>, {}, <<>>)

\* PRINT first, , second,
CommaProg(first, second) ==
    Program(<< I("pushconst", first, "STRING", 1), I("syscall", 0, "print", 1),
               I("syscall", 0, "print_comma", 1),
               I("syscall", 0, "print_comma", 1),
               I("pushconst", second, "STRING", 1),
               I("syscall", 0, "print", 1),
               I("syscall", 0, "print_comma", 1) >>, {}, <<>>)

PrintPrograms ==
    { UsingProg(format, value, names, terminator) :
        format \in Formats, value \in UsingValues, names \in UsingNames,
        terminator \in Terminators }
    \cup { CommaProg(first, second) :
               first \in {0, 4, 6, 8}, second \in {0, 4, 6, 8} }

NextPrint ==
    \/ \E program \in PrintPrograms : Run(program, TRUE)
    \/ RunStep

SpecPrint == Init /\ [][NextPrint]_vars

(***************************************************************************)
(* GlrParser.js.  Objects are indices: an LR state is its index in         *)
(* parser.states, the cached states in the order of their creation, and a  *)
(* node of the graph-structured stack is its index in parser.nodes.  The   *)
(* rule set and the tokenizer are given to the parser from outside.        *)
(***************************************************************************)
\* bounds: the parses made on one parser, and the depth of the recursion of
\* reduceAll and reduce the call stack has room for
MaxParses == 2
MaxDepth == 6

\* a rule of the rule set: its id is unique, action tells whether it has a
\* semantic action
Rule(id, name, symbols, action) ==
    [id |-> id, name |-> name, symbols |-> symbols, action |-> action]

\* the id of the tokenizer's EOF_TOKEN
EOF == "(EOF)"

\* symbol[0] == "'"
Terminals == {"'a'", "'x'", "'z'", "'('", "')'", "';'"}
IsTerminal(symbol) == symbol \in Terminals

NonTerminals == {"_start", "S", "E", "A", "B", "X", "R", "U"}

\* _start: S E   E:   S: A X | B X   A: 'a'   B: 'a'   X: 'x' 'z'
AmbiguousRules ==
    [rules |-> << Rule(0, "_start", << "S", "E" >>, FALSE),
                  Rule(1, "E", <<>>, FALSE),
                  Rule(2, "S", << "A", "X" >>, TRUE),
                  Rule(3, "S", << "B", "X" >>, TRUE),
                  Rule(4, "A", << "'a'" >>, FALSE),
                  Rule(5, "B", << "'a'" >>, TRUE),
                  Rule(6, "X", << "'x'", "'z'" >>, TRUE) >>,
     follow |-> [n \in NonTerminals |->
                    IF n \in {"A", "B"} THEN {"'x'"} ELSE {EOF}],
     texts |-> { << "a", "x", "z" >>, << "a", "x" >>, << "a", "z" >>,
                 << "a", "x", "z", "a" >>, << "a", "?" >>, <<>> }]

\* _start: S ';'   S: 'a' | '(' S ')'
ParenRules ==
    [rules |-> << Rule(0, "_start", << "S", "';'" >>, FALSE),
                  Rule(1, "S", << "'a'" >>, FALSE),
                  Rule(2, "S", << "'('", "S", "')'" >>, TRUE) >>,
     follow |-> [n \in NonTerminals |->
                    IF n = "S" THEN {"')'", "';'"} ELSE {EOF}],
     texts |-> { << "a", ";" >>, << "(", "a", ")", ";" >>,
                 << "a", ";", "a" >>, << "a", ";", "?" >>,
                 << "(", "a", ";" >>, << "a" >> }]

\* _start: S   S: 'a' | '(' S ')'
StartRules ==
    [rules |-> << Rule(0, "_start", << "S" >>, FALSE),
                  Rule(1, "S", << "'a'" >>, TRUE),
                  Rule(2, "S", << "'('", "S", "')'" >>, TRUE) >>,
     follow |-> [n \in NonTerminals |->
                    IF n = "S" THEN {"')'", EOF} ELSE {EOF}],
     texts |-> { << "a" >>, << "(", "a", ")" >>, << "a", ")" >>,
                 << "(", "a" >>, << "?" >> }]

\* _start: S ';'   S: S | 'a'
CyclicRules ==
    [rules |-> << Rule(0, "_start", << "S", "';'" >>, FALSE),
                  Rule(1, "S", << "S" >>, TRUE),
                  Rule(2, "S", << "'a'" >>, FALSE) >>,
     follow |-> [n \in NonTerminals |->
                    IF n = "S" THEN {"';'"} ELSE {EOF}],
     texts |-> { << "a", ";" >>, << "a" >>, << ";" >> }]

\* _start: S ';'   S: A R 'z' | B R   A: 'a'   B: 'a' 'a'   R: U 'x'
\* U: 'a' | 'a' 'a': two derivations of different lengths meet in one node
OverlapRules ==
    [rules |-> << Rule(0, "_start", << "S", "';'" >>, FALSE),
                  Rule(1, "S", << "A", "R", "'z'" >>, TRUE),
                  Rule(2, "S", << "B", "R" >>, TRUE),
                  Rule(3, "A", << "'a'" >>, TRUE),
                  Rule(4, "B", << "'a'", "'a'" >>, TRUE),
                  Rule(5, "R", << "U", "'x'" >>, TRUE),
                  Rule(6, "U", << "'a'" >>, TRUE),
                  Rule(7, "U", << "'a'", "'a'" >>, TRUE) >>,
     follow |-> [n \in NonTerminals |->
                    CASE n = "S" -> {"';'"}
                      [] n \in {"A", "B"} -> {"'a'"}
                      [] n = "R" -> {"'z'", "';'"}
                      [] n = "U" -> {"'x'"}
                      [] OTHER -> {EOF}],
     texts |-> { << "a", "a", "a", "x", ";" >>,
                 << "a", "a", "a", "x", "z", ";" >>,
                 << "a", "a", "x", "z", ";" >> }]

RuleSets ==
    { AmbiguousRules, ParenRules, StartRules, CyclicRules, OverlapRules }

\* state.next[symbol] when it was not computed, and when it is null
NotComputed == -1
NoState == 0

\* new GlrState()
GlrState ==
    [items |-> <<>>, reductions |-> <<>>, accept |-> FALSE,
     next |-> [symbol \in Terminals \cup NonTerminals \cup {EOF}
                  |-> NotComputed]]

\* new GlrItem(rule, position), and its key
GlrItem(rule, position) == [rule |-> rule, position |-> position]

ItemKey(item) ==
    << "r" >> \o Digits(item.rule.id) \o << "_" >> \o Digits(item.position)

\* the code of a character of a key
CharCode(ch) ==
    CASE ch = "_" -> 95
      [] ch = "r" -> 114
      [] OTHER -> 48 + (CHOOSE n \in 0..9 : Digit(n) = ch)

\* str1 < str2 as Array.prototype.sort compares strings
RECURSIVE StringLess(_, _)
StringLess(str1, str2) ==
    IF str2 = <<>> THEN FALSE
    ELSE IF str1 = <<>> THEN TRUE
    ELSE IF Head(str1) = Head(str2) THEN StringLess(Tail(str1), Tail(str2))
    ELSE CharCode(Head(str1)) < CharCode(Head(str2))

\* list.sort()
RECURSIVE Sort(_)
Sort(list) ==
    IF list = <<>> THEN <<>>
    ELSE LET m == CHOOSE i \in 1..Len(list) :
                      \A j \in 1..Len(list) : ~StringLess(list[j], list[i])
         IN  << list[m] >>
             \o Sort([i \in 1..(Len(list) - 1) |->
                         IF i < m THEN list[i] ELSE list[i + 1]])

\* list.join('_')
RECURSIVE Join(_)
Join(list) ==
    IF list = <<>> THEN <<>>
    ELSE IF Len(list) = 1 THEN list[1]
    ELSE list[1] \o << "_" >> \o Join(Tail(list))

\* GlrState.key
key(state) ==
    Join(Sort([i \in 1..Len(state.items) |-> ItemKey(state.items[i])]))

\* addRuleToState once the item is known to be new; todo are the calls of
\* addRuleToState still to be made, in their order
AddItem(ruleSet, state, rule, position) ==
    [state EXCEPT !.items = Append(@, GlrItem(rule, position)),
                  !.reductions = IF position = Len(rule.symbols)
                                 THEN Append(@, rule) ELSE @,
                  !.accept = @ \/ (position = Len(rule.symbols)
                                   /\ rule.name = "_start")]

\* the calls addNonTerminalToState makes
RulesOf(ruleSet, ruleName) ==
    [i \in 1..Len(SelectSeq(ruleSet.rules,
                            LAMBDA rule : rule.name = ruleName)) |->
        GlrItem(SelectSeq(ruleSet.rules,
                          LAMBDA rule : rule.name = ruleName)[i], 0)]

\* the calls addRuleToState makes for a new item
Closure(ruleSet, rule, position) ==
    IF /\ position < Len(rule.symbols)
       /\ ~IsTerminal(rule.symbols[position + 1])
    THEN RulesOf(ruleSet, rule.symbols[position + 1])
    ELSE <<>>

\* addRuleToState and addNonTerminalToState: todo are the calls of
\* addRuleToState to be made, in their order; a call for a new item puts
\* the calls it makes before the others
RECURSIVE addRulesToState(_, _, _)
addRulesToState(ruleSet, state, todo) ==
    IF todo = <<>> THEN state
    ELSE IF \E i \in 1..Len(state.items) :
                ItemKey(state.items[i]) = ItemKey(Head(todo))
    THEN addRulesToState(ruleSet, state, Tail(todo))
    ELSE addRulesToState(
             ruleSet,
             AddItem(ruleSet, state, Head(todo).rule, Head(todo).position),
             Closure(ruleSet, Head(todo).rule, Head(todo).position)
                 \o Tail(todo))

addRuleToState(ruleSet, state, rule, position) ==
    addRulesToState(ruleSet, state, << GlrItem(rule, position) >>)

addNonTerminalToState(ruleSet, state, ruleName) ==
    addRulesToState(ruleSet, state, RulesOf(ruleSet, ruleName))

\* cache as it would be if it never found the key: C26 must tell the two
\* apart
cache_NeverFound(p, state) ==
    [p |-> [p EXCEPT !.states = Append(@, state),
                     !.cached = Append(@, key(state))],
     state |-> Len(p.states) + 1]

\* GlrParser.cache: p.cached[i] is the key under which p.states[i] is cached
cache(p, state) ==
    IF \E i \in 1..Len(p.cached) : p.cached[i] = key(state)
    THEN [p |-> p,
          state |-> CHOOSE i \in 1..Len(p.cached) : p.cached[i] = key(state)]
    ELSE [p |-> [p EXCEPT !.states = Append(@, state),
                          !.cached = Append(@, key(state))],
          state |-> Len(p.states) + 1]

\* computeNext's loop as it would be if it added the advanced items without
\* the rules of the non-terminals after their dots: C30 must tell the two
\* apart
RECURSIVE NextItems_Kernel(_, _, _, _, _)
NextItems_Kernel(ruleSet, items, symbol, i, next) ==
    IF i > Len(items) THEN next
    ELSE IF /\ items[i].position < Len(items[i].rule.symbols)
            /\ items[i].rule.symbols[items[i].position + 1] = symbol
    THEN NextItems_Kernel(ruleSet, items, symbol, i + 1,
                          AddItem(ruleSet, next, items[i].rule,
                                  items[i].position + 1))
    ELSE NextItems_Kernel(ruleSet, items, symbol, i + 1, next)

\* computeNext's loop over state.items, from the i-th on
RECURSIVE NextItems(_, _, _, _, _)
NextItems(ruleSet, items, symbol, i, next) ==
    IF i > Len(items) THEN next
    ELSE IF /\ items[i].position < Len(items[i].rule.symbols)
            /\ items[i].rule.symbols[items[i].position + 1] = symbol
    THEN NextItems(ruleSet, items, symbol, i + 1,
                 addRuleToState(ruleSet, next, items[i].rule,
                                items[i].position + 1))
    ELSE NextItems(ruleSet, items, symbol, i + 1, next)

\* computeNext after the new state was cached: c is what cache returned
Memoize(c, state, symbol) ==
    [p |-> [c.p EXCEPT !.states[state].next[symbol] =
                IF c.state = c.p.errorState THEN NoState ELSE c.state],
     next |-> IF c.state = c.p.errorState THEN NoState ELSE c.state]

\* GlrParser.computeNext: the parser after the call and the state returned
computeNext(p, state, symbol) ==
    IF p.states[state].next[symbol] # NotComputed
    THEN [p |-> p, next |-> p.states[state].next[symbol]]
    ELSE Memoize(cache(p, NextItems(p.ruleSet, p.states[state].items, symbol,
                                  1, GlrState)),
                 state, symbol)

\* Tokenizer: a text is its lexemes; "?" is a character no token matches
NullToken == [id |-> "(null)", text |-> ""]
EOF_TOKEN == [id |-> EOF, text |-> ""]

TokenId(lexeme) ==
    CASE lexeme = "a" -> "'a'"
      [] lexeme = "x" -> "'x'"
      [] lexeme = "z" -> "'z'"
      [] lexeme = "(" -> "'('"
      [] lexeme = ")" -> "')'"
      [] lexeme = ";" -> "';'"

nextToken(text, position) ==
    IF position > Len(text) THEN EOF_TOKEN
    ELSE IF text[position] = "?" THEN NullToken
    ELSE [id |-> TokenId(text[position]), text |-> text[position]]

\* the nodes of the graph-structured stack; a field a kind of node does not
\* have is empty
NoRule == Rule(-1, "", <<>>, FALSE)

GlrShiftNode(state, parents, text) ==
    [type |-> "shift", state |-> state, parents |-> parents,
     inodes |-> <<>>, rule |-> NoRule, ref |-> 0, rnode |-> 0,
     text |-> text]

GlrReduceNode(state) ==
    [type |-> "reduce", state |-> state, parents |-> <<>>,
     inodes |-> <<>>, rule |-> NoRule, ref |-> 0, rnode |-> 0, text |-> ""]

\* new GlrInteriorNode(rnode, rule, ref): the nodes with the new node, which
\* pushed itself on rnode.inodes
GlrInteriorNode(nodes, rnode, rule, ref) ==
    Append([nodes EXCEPT ![rnode].inodes = Append(@, Len(nodes) + 1)],
           [type |-> "inode", state |-> nodes[rnode].state,
            parents |-> <<>>, inodes |-> <<>>, rule |-> rule, ref |-> ref,
            rnode |-> rnode, text |-> ""])

Contains(list, x) == \E i \in 1..Len(list) : list[i] = x

\* GlrShiftNode.addParent and GlrReduceNode.addParent
addParent(nodes, n, node) ==
    IF Contains(nodes[n].parents, node) THEN nodes
    ELSE [nodes EXCEPT ![n].parents = Append(@, node)]

\* GlrInteriorNode.addParent, when it returns true
inode_addParent(nodes, n, node) ==
    addParent([nodes EXCEPT ![n].parents = Append(@, node)],
              nodes[n].rnode, node)

\* GlrReduceNode.getINode: the nodes after the call and the node returned
getINode(nodes, rnode, rule, ref) ==
    IF \E i \in 1..Len(nodes[rnode].inodes) :
           /\ nodes[nodes[rnode].inodes[i]].rule = rule
           /\ nodes[nodes[rnode].inodes[i]].ref = ref
    THEN [nodes |-> nodes,
          inode |-> nodes[rnode].inodes[
              CHOOSE i \in 1..Len(nodes[rnode].inodes) :
                  /\ nodes[nodes[rnode].inodes[i]].rule = rule
                  /\ nodes[nodes[rnode].inodes[i]].ref = ref
                  /\ \A j \in 1..(i - 1) :
                         ~(/\ nodes[nodes[rnode].inodes[j]].rule = rule
                           /\ nodes[nodes[rnode].inodes[j]].ref = ref)]]
    ELSE [nodes |-> GlrInteriorNode(nodes, rnode, rule, ref),
          inode |-> Len(nodes) + 1]

\* the values: a string is itself, what an action returns is the rule and
\* its arguments in parentheses, null is "null"; who evaluates undefined
\* throws a Failed
NullValue == << "null" >>
Failed == << "TypeError" >>

RECURSIVE Concat(_)
Concat(list) ==
    IF list = <<>> THEN <<>> ELSE Head(list) \o Concat(Tail(list))

\* rule.action(args, locus)
Action(rule, args) ==
    << "(", Digit(rule.id) >> \o Concat(args) \o << ")" >>

\* unshift as it would be if it put the value last: C28 must tell the two
\* apart
Unshift_AtTheEnd(args, value) == Append(args, value)

\* args.unshift(value)
Unshift(args, value) == << value >> \o args

\* the nodes whose values GlrInteriorNode.evaluate collects in args: cur is
\* the node of this round of the loop, 0 is undefined, k the rounds left
RECURSIVE Children(_, _, _, _)
Children(nodes, cur, k, args) ==
    IF k = 0 THEN args
    ELSE IF cur = 0 THEN Unshift(args, 0)
    ELSE Children(nodes,
                  IF nodes[cur].parents = <<>> THEN 0
                  ELSE nodes[cur].parents[Len(nodes[cur].parents)],
                  k - 1, Unshift(args, cur))

\* evaluate of the three kinds of node
RECURSIVE evaluate(_, _)
InteriorValue(rule, args) ==
    IF \E i \in 1..Len(args) : args[i] = Failed THEN Failed
    ELSE IF rule.action THEN Action(rule, args)
    ELSE IF Len(args) > 0 THEN args[1]
    ELSE NullValue

evaluate(nodes, n) ==
    IF n = 0 THEN Failed
    ELSE IF nodes[n].type = "shift" THEN << nodes[n].text >>
    ELSE IF nodes[n].type = "reduce"
    THEN IF nodes[n].inodes = <<>> THEN Failed
         ELSE evaluate(nodes, nodes[n].inodes[1])
    ELSE InteriorValue(
             nodes[n].rule,
             [i \in 1..Len(Children(nodes, nodes[n].ref,
                                    Len(nodes[n].rule.symbols), <<>>)) |->
                 evaluate(nodes,
                          Children(nodes, nodes[n].ref,
                                   Len(nodes[n].rule.symbols), <<>>)[i])])

\* GlrParser.ancestors
RECURSIVE ancestors(_, _, _)
ancestors(nodes, v, k) ==
    IF k = 0 THEN << v >>
    ELSE Concat([i \in 1..Len(nodes[v].parents) |->
                    ancestors(nodes, nodes[v].parents[i], k - 1)])

\* findNode as it would be if it never found a node: C25 must tell the two
\* apart
findNode_None(nodes, tops, state) == 0

\* GlrParser.findNode: 0 is null
findNode(nodes, tops, state) ==
    IF \E i \in 1..Len(tops) : nodes[tops[i]].state = state
    THEN tops[CHOOSE i \in 1..Len(tops) :
                  /\ nodes[tops[i]].state = state
                  /\ \A j \in 1..(i - 1) : nodes[tops[j]].state # state]
    ELSE 0

\* printExpected: the lines it pushes for the items of one state, and for
\* the tops from the i-th on
ExpectedOf(items) ==
    LET open == SelectSeq(items, LAMBDA item :
                    /\ item.position < Len(item.rule.symbols)
                    /\ IsTerminal(item.rule.symbols[item.position + 1]))
    IN  [k \in 1..Len(open) |->
            << "    ", open[k].rule.symbols[open[k].position + 1] >>]

printExpected(p, tops) ==
    [p EXCEPT !.errors =
        @ \o Concat([i \in 1..Len(tops) |->
                        ExpectedOf(p.states[p.nodes[tops[i]].state].items)])]

\* new GlrParser(ruleSet)
Constructed(ruleSet) ==
    [ruleSet |-> ruleSet, states |-> <<>>, cached |-> <<>>,
     errorState |-> 0, startState |-> 0,
     at |-> "idle", text |-> <<>>, position |-> 1, token |-> NullToken,
     errors |-> <<>>, stackTops |-> <<>>, nextTops |-> <<>>, nodes |-> <<>>,
     i |-> 1, final |-> FALSE, calls |-> <<>>, result |-> NullValue,
     thrown |-> "", parses |-> 0, history |-> <<>>]

WithErrorState(c) == [c.p EXCEPT !.errorState = c.state]
WithStartState(c) == [c.p EXCEPT !.startState = c.state]

GlrParser(ruleSet) ==
    WithStartState(
        cache(WithErrorState(cache(Constructed(ruleSet), GlrState)),
              addNonTerminalToState(ruleSet, GlrState, "_start")))

\* a call of reduceAll(node, token): r is the reduction its loop is at;
\* inside reduce, entered is TRUE, ancestors is the list reduce computed and
\* ai the ancestor its loop is at
Frame(node) ==
    [node |-> node, r |-> 1, entered |-> FALSE, ancestors |-> <<>>,
     ai |-> 1]

Innermost(calls) == calls[Len(calls)]
WithTop(calls, frame) == [calls EXCEPT ![Len(calls)] = frame]

\* the rule the reduce of the innermost call is about
ReducedRule(p) ==
    p.states[p.nodes[Innermost(p.calls).node].state].reductions[Innermost(p.calls).r]

\* what one parse left behind
Outcome(p) ==
    [text |-> p.text, result |-> p.result, errors |-> p.errors,
     thrown |-> p.thrown, nodes |-> p.nodes]

\* parse is left, by return or by an exception
Leave(p, result, thrown) ==
    [p EXCEPT !.at = "idle", !.result = result, !.thrown = thrown,
              !.calls = <<>>, !.parses = @ + 1,
              !.history = Append(@, Outcome([p EXCEPT !.result = result,
                                                      !.thrown = thrown]))]

\* the test as it would be if every token were in every FOLLOW set: C24
\* must tell the two apart
InFollow_Always(p, rule, token) == TRUE

\* token.id in this.ruleSet.follow[rule.name]
InFollow(p, rule, token) == token.id \in p.ruleSet.follow[rule.name]

\* parse as it would be if it kept the errors of the parse before: C27 must
\* tell the two apart
parse_KeepingErrors(p, text) ==
    [p EXCEPT !.text = text, !.position = 1,
              !.nodes = << GlrReduceNode(p.startState) >>,
              !.stackTops = << 1 >>, !.nextTops = <<>>,
              !.at = "token", !.result = NullValue, !.thrown = "",
              !.calls = <<>>, !.final = FALSE]

\* parse up to its loop
parse(p, text) ==
    [p EXCEPT !.text = text, !.position = 1, !.errors = <<>>,
              !.nodes = << GlrReduceNode(p.startState) >>,
              !.stackTops = << 1 >>, !.nextTops = <<>>,
              !.at = "token", !.result = NullValue, !.thrown = "",
              !.calls = <<>>, !.final = FALSE]

\* reduceAll(node, token) is called: the call stack has room for MaxDepth
\* nested calls
reduceAll(p, node) ==
    IF Len(p.calls) >= MaxDepth THEN Leave(p, NullValue, "RangeError")
    ELSE [p EXCEPT !.calls = Append(@, Frame(node))]

\* shift(node, symbol); c is what computeNext returned
shiftTo(p, node, found, nextState) ==
    IF found # 0
    THEN [p EXCEPT !.nodes = addParent(@, found, node)]
    ELSE [p EXCEPT !.nodes = Append(@, GlrShiftNode(nextState, << node >>,
                                                    p.token.text)),
                   !.nextTops = Append(@, Len(p.nodes) + 1)]

shift(p, node, c) ==
    IF c.next = NoState THEN c.p
    ELSE shiftTo(c.p, node, findNode(c.p.nodes, c.p.nextTops, c.next),
                 c.next)

\* reduce, for one ancestor, when no top has the next state
NewReduceNode(p, f, rule, ancestor, nextState) ==
    reduceAll(
        [p EXCEPT !.nodes = inode_addParent(
                      GlrInteriorNode(Append(@, GlrReduceNode(nextState)),
                                      Len(@) + 1, rule, f.node),
                      Len(@) + 2, ancestor),
                  !.stackTops = Append(@, Len(p.nodes) + 1),
                  !.calls = WithTop(@, [f EXCEPT !.ai = @ + 1])],
        Len(p.nodes) + 2)

\* reduce, for one ancestor, when the top with the next state is a reduce
\* node; g is what getINode returned
OldReduceNode(p, f, g, ancestor) ==
    IF Contains(g.nodes[g.inode].parents, ancestor)
    THEN [p EXCEPT !.nodes = g.nodes,
                   !.calls = WithTop(@, [f EXCEPT !.ai = @ + 1])]
    ELSE reduceAll(
             [p EXCEPT !.nodes = inode_addParent(g.nodes, g.inode, ancestor),
                       !.calls = WithTop(@, [f EXCEPT !.ai = @ + 1])],
             g.inode)

\* reduce, for one ancestor, once the next state is known
ReduceTo(p, f, rule, ancestor, nextState, nextNode) ==
    IF nextState = NoState
    THEN [p EXCEPT !.calls = WithTop(@, [f EXCEPT !.ai = @ + 1])]
    ELSE IF nextNode = 0
    THEN NewReduceNode(p, f, rule, ancestor, nextState)
    ELSE IF p.nodes[nextNode].type = "reduce"
    THEN OldReduceNode(p, f, getINode(p.nodes, nextNode, rule, f.node),
                       ancestor)
    ELSE [p EXCEPT !.calls = WithTop(@, [f EXCEPT !.ai = @ + 1])]

ReduceAncestor(c, f, rule, ancestor) ==
    ReduceTo(c.p, f, rule, ancestor, c.next,
             IF c.next = NoState THEN 0
             ELSE findNode(c.p.nodes, c.p.stackTops, c.next))

\* one step of the innermost call f of reduceAll: its loop ends, or the
\* reduce it called is entered, skipped, goes on to its next ancestor or
\* returns
reduce(p, f, node) ==
    IF f.r > Len(p.states[node.state].reductions)
    THEN [p EXCEPT !.calls = SubSeq(@, 1, Len(@) - 1)]
    ELSE IF ~f.entered
    THEN IF \/ ~InFollow(p, ReducedRule(p), p.token)
            \/ node.type = "reduce"
         THEN [p EXCEPT !.calls = WithTop(@, [f EXCEPT !.r = @ + 1])]
         ELSE [p EXCEPT !.calls = WithTop(@,
                  [f EXCEPT !.entered = TRUE, !.ai = 1,
                            !.ancestors = ancestors(p.nodes, f.node,
                                Len(ReducedRule(p).symbols))])]
    ELSE IF f.ai > Len(f.ancestors)
    THEN [p EXCEPT !.calls = WithTop(@,
             [f EXCEPT !.r = @ + 1, !.entered = FALSE,
                       !.ancestors = <<>>, !.ai = 1])]
    ELSE ReduceAncestor(
             computeNext(p, p.nodes[f.ancestors[f.ai]].state,
                         ReducedRule(p).name),
             f, ReducedRule(p), f.ancestors[f.ai])

\* the end of parse: the first accepting top is evaluated
Accepting(p) ==
    SelectSeq(p.stackTops, LAMBDA n : p.states[p.nodes[n].state].accept)

return(p) ==
    IF Accepting(p) # <<>>
    THEN IF p.nodes[Accepting(p)[1]].parents = <<>>
         THEN Leave(p, NullValue, "TypeError")
         ELSE IF evaluate(p.nodes, p.nodes[Accepting(p)[1]].parents[1])
                     = Failed
         THEN Leave(p, NullValue, "TypeError")
         ELSE Leave(p, evaluate(p.nodes,
                                p.nodes[Accepting(p)[1]].parents[1]), "")
    ELSE Leave(printExpected(
                   [p EXCEPT !.errors =
                       Append(@, << "Expected one of the following:" >>)],
                   p.stackTops),
               NullValue, "")

(***************************************************************************)
(* The actions of a parser: parse(text) is called on an idle parser, and   *)
(* runs in steps up to its return.                                         *)
(***************************************************************************)
Foreign == UNCHANGED << vm, ctx, last, faulted >>

Parse ==
    /\ parser.at = "idle"
    /\ parser.parses < MaxParses
    /\ \E text \in parser.ruleSet.texts : parser' = parse(parser, text)
    /\ Foreign

NextToken ==
    /\ parser.at = "token"
    /\ \E token \in { nextToken(parser.text, parser.position) } :
           parser' =
               IF token = NullToken
               THEN [parser EXCEPT !.token = token, !.at = "accept",
                                   !.errors = Append(@, << "Bad character" >>)]
               ELSE [parser EXCEPT !.token = token, !.at = "reduce",
                                   !.i = 1, !.final = FALSE]
    /\ Foreign

\* the loops of parse that call reduceAll for every top
ReduceAll ==
    /\ parser.at = "reduce"
    /\ parser.calls = <<>>
    /\ parser' =
           IF parser.i <= Len(parser.stackTops)
           THEN reduceAll([parser EXCEPT !.i = @ + 1],
                          parser.stackTops[parser.i])
           ELSE IF parser.final
           THEN [parser EXCEPT !.at = "accept"]
           ELSE [parser EXCEPT !.at = "shift", !.i = 1]
    /\ Foreign

Reduce ==
    /\ parser.at = "reduce"
    /\ parser.calls # <<>>
    /\ parser' = reduce(parser, Innermost(parser.calls),
                        parser.nodes[Innermost(parser.calls).node])
    /\ Foreign

\* the loop of parse that calls shift for every top
Shift ==
    /\ parser.at = "shift"
    /\ parser' =
           IF parser.i <= Len(parser.stackTops)
           THEN [shift(parser, parser.stackTops[parser.i],
                       computeNext(parser,
                           parser.nodes[parser.stackTops[parser.i]].state,
                           parser.token.id))
                    EXCEPT !.i = @ + 1]
           ELSE [parser EXCEPT !.at = "shifted"]
    /\ Foreign

\* parse after the shifts: the last reductions at the end of the text, the
\* syntax error, or the next tops become the tops
EndOfToken ==
    /\ parser.at = "shifted"
    /\ parser' =
           IF parser.token = EOF_TOKEN
           THEN [parser EXCEPT !.at = "reduce", !.i = 1, !.final = TRUE]
           ELSE IF parser.nextTops = <<>>
           THEN [printExpected(
                     [parser EXCEPT !.errors =
                         @ \o << << "Syntax error", parser.token.id >>,
                                 << "Expected one of the following:" >> >>],
                     parser.stackTops)
                    EXCEPT !.at = "accept"]
           ELSE [parser EXCEPT !.stackTops = parser.nextTops,
                               !.nextTops = <<>>,
                               !.position = @ + 1, !.at = "token"]
    /\ Foreign

Return ==
    /\ parser.at = "accept"
    /\ parser' = return(parser)
    /\ Foreign

NextGlr ==
    \/ Parse
    \/ NextToken
    \/ ReduceAll
    \/ Reduce
    \/ Shift
    \/ EndOfToken
    \/ Return

InitGlr ==
    /\ vm = VirtualMachine(TRUE)
    /\ ctx = Idle
    /\ last = Last("init", vm, NoError, <<>>, NoCallback)
    /\ faulted = FALSE
    /\ parser \in { GlrParser(ruleSet) : ruleSet \in RuleSets }

SpecGlr == InitGlr /\ [][NextGlr]_vars


(***************************************************************************)
(* C18.  PLAY and BGMPLAY with an audio device: called with music and      *)
(* repeat (pushed in this order, the argument count last) they pass the    *)
(* first argument to playMusic as the music and the second as the repeat   *)
(* count; called with one argument they pass it as the music.  PLAY        *)
(* suspends the machine, BGMPLAY does not.                                 *)
(***************************************************************************)
\* the last step executed PLAY or BGMPLAY on one or two variables
MusicDone ==
    /\ Executed
    /\ Instr.op = "syscall"
    /\ Instr.s \in {"PLAY", "BGMPLAY"}
    /\ last.pre.audio
    /\ Len(Was) >= 2
    /\ Was[Len(Was)] \in {Num(1), Num(2)}
    /\ Len(Was) >= Was[Len(Was)].v + 1
    /\ \A i \in 1..Was[Len(Was)].v : Was[Len(Was) - i].k = "ref"

\* the value of the i-th argument in source order, i = 1, 2
MusicArg(i) ==
    last.pre.cells[Was[Len(Was) - Was[Len(Was)].v - 1 + i].v].value

C18_PlayArguments ==
    MusicDone =>
        /\ Len(vm.played) = Len(last.pre.played) + 1
        /\ vm.played[Len(vm.played)].music = MusicArg(1)
        /\ Was[Len(Was)] = Num(2) =>
               vm.played[Len(vm.played)].repeat = MusicArg(2)
        /\ Instr.s = "PLAY" => vm.suspended
        /\ Instr.s = "BGMPLAY" =>
               /\ vm.suspended = last.pre.suspended
               /\ vm.pending = last.pre.pending

(***************************************************************************)
(* C19.  RND with argument 0 pushes the last random number generated,      *)
(* that is the value the latest earlier RND call with a non-zero or no     *)
(* argument pushed.                                                        *)
(***************************************************************************)
C19_RndZeroRepeats ==
    (Executed /\ Instr.op = "syscall" /\ Instr.s = "RND"
        /\ Len(Was) >= 2
        /\ Was[Len(Was)] = Num(1) /\ Was[Len(Was) - 1] = Num(0)
        /\ last.pre.generated # Undefined) =>
        vm.stack = Append(SubSeq(Was, 1, Len(Was) - 2), last.pre.generated)

(***************************************************************************)
(* C20.  print_using: a numeric field of the format with d '#' puts d      *)
(* characters at its '#' positions, the argument's string s aligned to the *)
(* right and padded with spaces on the left when |s| <= d, the last d      *)
(* characters of s when |s| > d; the ',' of the field are put at their     *)
(* positions; a character outside the fields is put as it is, in order;    *)
(* the output stops at the first field that has no argument or whose       *)
(* argument is not numeric.                                                *)
(***************************************************************************)
\* the last step executed print_using on a format and arguments that are
\* all variables
UsingDone ==
    /\ Executed
    /\ Instr.op = "syscall"
    /\ Instr.s = "print_using"
    /\ Len(Was) >= 2
    /\ Was[Len(Was)].k = "num"
    /\ Was[Len(Was)].d = 1
    /\ Was[Len(Was)].v >= 2
    /\ Len(Was) > Was[Len(Was)].v
    /\ \A i \in 0..(Was[Len(Was)].v - 2) :
           Was[Len(Was) - Was[Len(Was)].v + i].k = "ref"
    /\ last.pre.cells[Was[Len(Was) - Was[Len(Was)].v].v].value.k = "str"

\* the variable that is the format (i = 0) or the i-th argument
UsingVariable(i) == last.pre.cells[Was[Len(Was) - Was[Len(Was)].v + i].v]

UsingFormat == Text(UsingVariable(0).value.v)

UsingArgCount == Was[Len(Was)].v - 2

\* position p of the format belongs to a field: a run of '#' and ',' that
\* starts with a '#'
InField(p) ==
    \E q \in 1..p :
        /\ UsingFormat[q] = "#"
        /\ \A r \in q..p : UsingFormat[r] \in {"#", ","}

FieldStart(p) == UsingFormat[p] = "#" /\ (p = 1 \/ ~InField(p - 1))

\* the number of the field position p belongs to, from 1
FieldOf(p) == Cardinality({ q \in 1..p : FieldStart(q) })

\* the '#' positions of the field of p up to p
HashesUpTo(p) ==
    { q \in 1..p : /\ UsingFormat[q] = "#"
                   /\ FieldOf(q) = FieldOf(p) }

\* all the '#' positions of the field of p
Hashes(p) ==
    { q \in 1..Len(UsingFormat) :
        /\ UsingFormat[q] = "#"
        /\ InField(q)
        /\ FieldOf(q) = FieldOf(p) }

\* field k has no argument, or one that is not numeric
FieldStops(k) ==
    k > UsingArgCount \/ ~IsNumericType(UsingVariable(k).type)

\* where the output stops: the start of the first such field
StopAt ==
    IF \E p \in 1..Len(UsingFormat) : FieldStart(p) /\ FieldStops(FieldOf(p))
    THEN CHOOSE p \in 1..Len(UsingFormat) :
             /\ FieldStart(p) /\ FieldStops(FieldOf(p))
             /\ \A q \in 1..(p - 1) :
                    ~(FieldStart(q) /\ FieldStops(FieldOf(q)))
    ELSE Len(UsingFormat) + 1

\* the j-th of d characters holding str aligned to the right
Aligned(str, d, j) ==
    IF j <= d - Len(str) THEN " " ELSE str[Len(str) - d + j]

\* what print_using printed first
UsingOutput == vm.cons.printed[Len(last.pre.cons.printed) + 1]

C20_PrintUsing ==
    UsingDone =>
        /\ last.raised = NoError
        /\ Len(vm.cons.printed) > Len(last.pre.cons.printed)
        /\ Len(UsingOutput) = StopAt - 1
        /\ \A p \in 1..(StopAt - 1) :
               UsingOutput[p] =
                   IF ~InField(p) \/ UsingFormat[p] = ","
                   THEN UsingFormat[p]
                   ELSE Aligned(JsToString(UsingVariable(FieldOf(p)).value),
                                Cardinality(Hashes(p)),
                                Cardinality(HashesUpTo(p)))

\* PRINT USING "a#,##b#"; 1234, 7 printed "a2,34b7"
C20_Witness ==
    /\ UsingDone
    /\ UsingFormat = Texts[6]
    /\ UsingArgCount = 2
    /\ UsingVariable(1).value = Num(1234)
    /\ UsingOutput = << "a", "2", ",", "3", "4", "b", "7" >>

(***************************************************************************)
(* C21.  print_comma, and print_using with the terminator ',', print only  *)
(* spaces and leave the cursor's column on the next tab stop, the smallest *)
(* multiple of 14 greater than the column they started at; print_using     *)
(* with the terminator ';' prints nothing more, and with any other         *)
(* terminator exactly one newline.                                         *)
(***************************************************************************)
NextTabStop(x) == 14 * ((x \div 14) + 1)

\* what the last step printed last
LastPrinted == vm.cons.printed[Len(vm.cons.printed)]

OnlySpaces(str) == \A i \in 1..Len(str) : str[i] = " "

UsingTerminator == Was[Len(Was) - 1]

C21_TabStops ==
    /\ (Executed /\ Instr.op = "syscall" /\ Instr.s = "print_comma") =>
           /\ Len(vm.cons.printed) = Len(last.pre.cons.printed) + 1
           /\ OnlySpaces(LastPrinted)
           /\ vm.cons.x = NextTabStop(last.pre.cons.x)
    /\ (UsingDone /\ UsingTerminator = Str(4)) =>
           /\ Len(vm.cons.printed) = Len(last.pre.cons.printed) + 2
           /\ OnlySpaces(LastPrinted)
           /\ vm.cons.x =
                  NextTabStop(Column(last.pre.cons.x, UsingOutput))
    /\ (UsingDone /\ UsingTerminator = Str(3)) =>
           Len(vm.cons.printed) = Len(last.pre.cons.printed) + 1
    /\ (UsingDone /\ UsingTerminator \notin {Str(3), Str(4)}) =>
           /\ Len(vm.cons.printed) = Len(last.pre.cons.printed) + 2
           /\ LastPrinted = << "\n" >>

(***************************************************************************)
(* C22.  One call of runSome executes at most Quantum instructions and     *)
(* then returns to the host, also when the program loops forever.          *)
(***************************************************************************)
C22_QuantumBound ==
    /\ ctx.at = "runSome" => ctx.i < Quantum
    /\ (last.act = "runSomeStep" /\ last.at.i + 1 >= Quantum) =>
           ctx.at = "idle"

\* the quantum ended a call of runSome inside the endless loop of YieldProg
C22_Witness ==
    /\ last.act = "runSomeStep"
    /\ last.at.i + 1 = Quantum
    /\ ctx.at = "idle"
    /\ ~vm.suspended
    /\ vm.pc < Len(vm.instructions)
    /\ vm.instructions = YieldProg.instructions
    /\ vm.interval \in vm.timers

(***************************************************************************)
(* C23.  parse yields a syntax tree only when it recorded no error: after  *)
(* a bad character, a token no top can shift, or an end of text that is    *)
(* not accepted, it returns null.                                          *)
(***************************************************************************)
Parsed == parser.at = "idle" /\ parser.parses > 0

\* C23: a parse that recorded an error returned null
C23_NullOnError ==
    (Parsed /\ parser.errors # <<>>) =>
        (parser.thrown = "" /\ parser.result = NullValue)

(***************************************************************************)
(* C24.  reduce changes the graph only when the id of the lookahead token  *)
(* is in the FOLLOW set of the rule's name.                                *)
(***************************************************************************)
Gss(p) == << p.nodes, p.stackTops, p.nextTops >>

Lookahead(rule) == parser.token.id \in parser.ruleSet.follow[rule.name]

\* C24: while the tops are reduced the nodes, their edges and the tops
\* change only in a reduce by a rule whose FOLLOW set holds the lookahead
C24_FollowFilter ==
    [][(parser.at = "reduce" /\ Gss(parser') # Gss(parser)) =>
           /\ parser.calls # <<>>
           /\ Innermost(parser.calls).r <=
                  Len(parser.states[parser.nodes[Innermost(parser.calls).node]
                                        .state].reductions)
           /\ Lookahead(ReducedRule(parser))]_vars

\* a reduce of a shift node was skipped for its FOLLOW set, in a parse that
\* made reductions before
C24_Witness ==
    /\ parser.at = "reduce"
    /\ parser.calls # <<>>
    /\ Innermost(parser.calls).r > 1
    /\ ~Innermost(parser.calls).entered
    /\ parser.nodes[Innermost(parser.calls).node].type = "shift"
    /\ \E n \in 1..Len(parser.nodes) : parser.nodes[n].type = "inode"
    /\ ~Lookahead(parser.states[parser.nodes[Innermost(parser.calls).node]
                      .state].reductions[Innermost(parser.calls).r - 1])

(***************************************************************************)
(* C25.  The tops are merged by LR state: no two nodes of stackTops, and   *)
(* no two of nextTops, have the same state, and the shift node of a state  *)
(* has every top that shifts to the state as a parent, once.               *)
(***************************************************************************)
Distinct(list) ==
    \A i, j \in 1..Len(list) : list[i] = list[j] => i = j

StatesOf(tops) == [i \in 1..Len(tops) |-> parser.nodes[tops[i]].state]

\* the tops from which the lookahead leads to the state, by the GOTO tables
ShiftingTo(state) ==
    { parser.stackTops[i] : i \in
        { k \in 1..Len(parser.stackTops) :
            parser.states[parser.nodes[parser.stackTops[k]].state]
                .next[parser.token.id] = state } }

\* C25: the states of the tops are distinct, no node has a parent twice, and
\* after the shifts the parents of a next top are the tops shifting to it
C25_Merged ==
    /\ Distinct(StatesOf(parser.stackTops))
    /\ Distinct(StatesOf(parser.nextTops))
    /\ \A n \in 1..Len(parser.nodes) : Distinct(parser.nodes[n].parents)
    /\ parser.at = "shifted" =>
           /\ \A i \in 1..Len(parser.nextTops) :
                  /\ parser.nodes[parser.nextTops[i]].type = "shift"
                  /\ { parser.nodes[parser.nextTops[i]].parents[k] :
                         k \in 1..Len(parser.nodes[parser.nextTops[i]]
                                          .parents) }
                        = ShiftingTo(parser.nodes[parser.nextTops[i]].state)
           /\ \A i \in 1..Len(parser.stackTops) :
                  \/ parser.states[parser.nodes[parser.stackTops[i]].state]
                         .next[parser.token.id] = NoState
                  \/ \E k \in 1..Len(parser.nextTops) :
                         parser.stackTops[i] \in
                             ShiftingTo(parser.nodes[parser.nextTops[k]]
                                            .state)

\* two tops shifted to the same state and share one shift node
C25_Witness ==
    /\ parser.at = "shifted"
    /\ Len(parser.nextTops) = 1
    /\ Len(parser.nodes[parser.nextTops[1]].parents) = 2
    /\ Len(parser.stackTops) = 3

(***************************************************************************)
(* C26.  The LR states are interned by their item sets: the cache holds    *)
(* one state for an item set, under the key made of its sorted item keys.  *)
(***************************************************************************)
ItemSet(state) ==
    { << state.items[i].rule.id, state.items[i].position >> :
        i \in 1..Len(state.items) }

\* C26: cached states are distinct exactly when their item sets differ, and
\* each is cached under its key
C26_Interned ==
    /\ Len(parser.cached) = Len(parser.states)
    /\ \A i, j \in 1..Len(parser.states) :
           /\ ItemSet(parser.states[i]) = ItemSet(parser.states[j]) => i = j
           /\ parser.cached[i] = parser.cached[j] => i = j
    /\ \A i \in 1..Len(parser.states) :
           parser.cached[i] = key(parser.states[i])

\* a state with items was found in the cache: two GOTO entries lead to it
C26_Witness ==
    \E i, j \in 1..Len(parser.states) :
        \E X \in Terminals \cup NonTerminals :
            /\ i # j
            /\ parser.states[i].next[X] > parser.errorState
            /\ parser.states[i].next[X] = parser.states[j].next[X]

(***************************************************************************)
(* C27.  parse is deterministic: a text parsed again on the same parser,   *)
(* whose cache and GOTO tables the parses before have filled, leaves the   *)
(* same result, the same errors and the same graph, and so the same first  *)
(* interior node at every reduce node.                                     *)
(***************************************************************************)
\* C27: two parses of one text on a parser have the same outcome
C27_Deterministic ==
    \A i, j \in 1..Len(parser.history) :
        parser.history[i].text = parser.history[j].text =>
            parser.history[i] = parser.history[j]

\* a text with two derivations was parsed twice and accepted
C27_Witness ==
    /\ Len(parser.history) = 2
    /\ parser.history[1].text = parser.history[2].text
    /\ parser.history[2].result # NullValue
    /\ parser.history[2].errors = <<>>
    /\ \E n \in 1..Len(parser.history[2].nodes) :
           Len(parser.history[2].nodes[n].inodes) > 1

(***************************************************************************)
(* C28.  An interior node of a rule with n symbols passes n child values,  *)
(* in the order of the rule's symbols, to the rule's action; without an    *)
(* action its value is the first child value, or null when n = 0.          *)
(***************************************************************************)
\* the node that stands for the i-th symbol of the rule of interior node n:
\* the last is the node the reduction started from, each one before is the
\* last parent of the next
RECURSIVE Child(_, _)
Child(n, i) ==
    IF i = Len(parser.nodes[n].rule.symbols) THEN parser.nodes[n].ref
    ELSE IF Child(n, i + 1) = 0 THEN 0
    ELSE IF parser.nodes[Child(n, i + 1)].parents = <<>> THEN 0
    ELSE parser.nodes[Child(n, i + 1)].parents[
             Len(parser.nodes[Child(n, i + 1)].parents)]

\* the symbol a node stands for
SymbolOf(n) ==
    IF n = 0 THEN ""
    ELSE IF parser.nodes[n].type = "shift" THEN TokenId(parser.nodes[n].text)
    ELSE IF parser.nodes[n].type = "inode" THEN parser.nodes[n].rule.name
    ELSE IF parser.nodes[n].inodes = <<>> THEN ""
    ELSE parser.nodes[parser.nodes[n].inodes[1]].rule.name

ChildValues(n) ==
    [i \in 1..Len(parser.nodes[n].rule.symbols) |->
        evaluate(parser.nodes, Child(n, i))]

InteriorNodes ==
    { n \in 1..Len(parser.nodes) : parser.nodes[n].type = "inode" }

\* C28: the values an interior node collects are those of the nodes of its
\* rule's symbols, one for each symbol and in their order, and its value is
\* the action's result for them, the first of them, or null
C28_Evaluate ==
    \A n \in InteriorNodes :
        /\ Children(parser.nodes, parser.nodes[n].ref,
                    Len(parser.nodes[n].rule.symbols), <<>>)
              = [i \in 1..Len(parser.nodes[n].rule.symbols) |-> Child(n, i)]
        /\ \A i \in 1..Len(parser.nodes[n].rule.symbols) :
               /\ SymbolOf(Child(n, i)) = parser.nodes[n].rule.symbols[i]
               /\ ChildValues(n)[i] # Failed
        /\ evaluate(parser.nodes, n) =
               IF parser.nodes[n].rule.action
               THEN Action(parser.nodes[n].rule, ChildValues(n))
               ELSE IF parser.nodes[n].rule.symbols = <<>> THEN NullValue
               ELSE ChildValues(n)[1]

\* an accepted parse evaluated a rule with an action and two symbols, a
\* rule without action, and there is an interior node of the empty rule
C28_Witness ==
    /\ Parsed
    /\ parser.thrown = ""
    /\ parser.result = << "(", "2", "a", "(", "6", "x", "z", ")", ")" >>
    /\ \E n \in InteriorNodes :
           /\ parser.nodes[n].rule.symbols = <<>>
           /\ evaluate(parser.nodes, n) = NullValue

(***************************************************************************)
(* C29.  parse terminates for every text and every rule set: reduceAll     *)
(* and reduce recurse finitely often.                                      *)
(***************************************************************************)
\* C29: no parse exhausts the call stack
C29_Terminates == parser.thrown # "RangeError"

(***************************************************************************)
(* C30.  computeNext(state, X) is the cached state of the closure of the   *)
(* items of state advanced over X, null exactly when there is none; the    *)
(* answer is memoized; a state accepts exactly when it has a completed     *)
(* _start item.                                                            *)
(***************************************************************************)
RuleOf(id) == parser.ruleSet.rules[id + 1]

\* the items of the state with X after the dot, advanced over it
Kernel(state, X) ==
    { << it[1], it[2] + 1 >> : it \in
        { k \in ItemSet(state) :
            /\ k[2] < Len(RuleOf(k[1]).symbols)
            /\ RuleOf(k[1]).symbols[k[2] + 1] = X } }

\* the items a set of items calls for: the rules of the non-terminals after
\* its dots, at position 0
Called(items) ==
    { << RuleOf(id).id, 0 >> : id \in
        { r \in 0..(Len(parser.ruleSet.rules) - 1) :
            \E it \in items :
                /\ it[2] < Len(RuleOf(it[1]).symbols)
                /\ RuleOf(it[1]).symbols[it[2] + 1] = RuleOf(r).name } }

RECURSIVE ClosureOf(_)
ClosureOf(items) ==
    IF Called(items) \subseteq items THEN items
    ELSE ClosureOf(items \cup Called(items))

Computed ==
    { e \in (1..Len(parser.states)) \X (Terminals \cup NonTerminals) :
        parser.states[e[1]].next[e[2]] # NotComputed }

\* C30: every memoized GOTO entry is null when no item of the state has the
\* symbol after its dot and else the cached state of the closure of the
\* advanced items, computeNext answers it without a change, and the states
\* that accept are those with a completed _start item
C30_ComputeNext ==
    /\ \A e \in Computed :
           /\ parser.states[e[1]].next[e[2]] = NoState
                 <=> Kernel(parser.states[e[1]], e[2]) = {}
           /\ parser.states[e[1]].next[e[2]] # NoState =>
                 /\ parser.states[e[1]].next[e[2]] \in 1..Len(parser.states)
                 /\ ItemSet(parser.states[parser.states[e[1]].next[e[2]]])
                       = ClosureOf(Kernel(parser.states[e[1]], e[2]))
           /\ computeNext(parser, e[1], e[2])
                 = [p |-> parser, next |-> parser.states[e[1]].next[e[2]]]
    /\ \A i \in 1..Len(parser.states) :
           parser.states[i].accept
               <=> \E it \in ItemSet(parser.states[i]) :
                       /\ RuleOf(it[1]).name = "_start"
                       /\ it[2] = Len(RuleOf(it[1]).symbols)

\* in a second parse on the parser: a memoized entry leads to a state with
\* more items than were advanced, another is null, and a state accepts
C30_Witness ==
    /\ parser.parses = 1
    /\ parser.at = "shifted"
    /\ \E e \in Computed :
           /\ parser.states[e[1]].next[e[2]] # NoState
           /\ Kernel(parser.states[e[1]], e[2])
                 # ItemSet(parser.states[parser.states[e[1]].next[e[2]]])
    /\ \E e \in Computed : parser.states[e[1]].next[e[2]] = NoState
    /\ \E i \in 1..Len(parser.states) : parser.states[i].accept

(***************************************************************************)
(* C31.  A synchronous run stops at the first runtime error: the error is  *)
(* reported once, pc is left behind the instruction that raised it, and    *)
(* nothing is executed after it; without an error run returns only at the  *)
(* end of the program.                                                     *)
(***************************************************************************)
\* C31: the step of run's loop that raises a runtime error emits it once and
\* ends the run with pc behind the instruction; the loop is only at work in
\* a run that has emitted nothing; a step that emits nothing ends the run
\* only with pc at or behind the end; runSome executes only in
\* asynchronous mode
C31_RunStopsAtError ==
    /\ (last.act = "runStep" /\ last.raised > 0) =>
           /\ ctx = Idle
           /\ Len(last.emitted) = 1
           /\ last.emitted[1].code = last.raised
           /\ vm.pc = last.pre.pc + 1
           /\ vm.instructions = last.pre.instructions
    /\ (last.act = "runStep" /\ last.emitted # <<>>) => last.raised > 0
    /\ ctx.at = "run" =>
           /\ last.act \in {"run", "runStep"}
           /\ last.emitted = <<>>
           /\ ~faulted
           /\ ~vm.asynchronous
    /\ (last.act = "runStep" /\ last.emitted = <<>> /\ ctx.at = "idle") =>
           vm.pc >= Len(vm.instructions)
    /\ (last.act = "run" /\ ~vm.asynchronous /\ ctx.at = "idle") =>
           vm.pc >= Len(vm.instructions)
    /\ ctx.at = "runSome" => vm.asynchronous

(***************************************************************************)
(* C32.  In asynchronous mode at most one ticker is armed at any time, and *)
(* none while the machine is suspended.                                    *)
(***************************************************************************)
\* C32: between the handlers an asynchronous machine has at most one armed
\* timer, and none when it is suspended
C32_OneTicker ==
    (vm.asynchronous /\ ctx.at = "idle") =>
        /\ Cardinality(vm.timers) <= 1
        /\ vm.suspended => vm.timers = {}

(***************************************************************************)
(* C33.  Once the program has halted in asynchronous mode, every armed     *)
(* ticker is eventually cleared and no tick fires any more.                *)
(***************************************************************************)
Halted ==
    /\ vm.asynchronous
    /\ ctx.at = "idle"
    /\ vm.instructions # <<>>
    /\ vm.pc = Len(vm.instructions)

\* C33: a halted program is followed by a state without armed timers, or
\* by the host starting a program again
C33_TickersCleared == Halted ~> (vm.timers = {} \/ ~Halted)

(***************************************************************************)
(* C34.  Whenever the call stack is not empty, vm.frame, the frame in      *)
(* which names that are not shared are looked up, is its top frame.        *)
(***************************************************************************)
\* C34: the current frame is the top of a non-empty call stack
C34_FrameIsTop ==
    Len(vm.callstack) > 0 => vm.frame = vm.callstack[Len(vm.callstack)]

\* the RET of a nested GOSUB made the frame of the outer GOSUB current
C34_Witness ==
    /\ ReturnedFrom("gosub")
    /\ Len(vm.callstack) = 2
    /\ vm.frame = vm.callstack[2]
    /\ vm.frame.kind = "gosub"
    /\ vm.frame # last.pre.frame

(***************************************************************************)
(* C35.  A RET in the main frame halts the program: it pops the main       *)
(* frame and sets pc to the end of the program, raises nothing, and no     *)
(* instruction is executed after it; no RET of a run raises                *)
(* STACK_UNDERFLOW.                                                        *)
(***************************************************************************)
\* C35: a RET at depth 1 raises nothing, empties the call stack, puts pc at
\* the end and ends the handler; no instruction is executed on an empty
\* call stack, and no RET raises STACK_UNDERFLOW
C35_MainReturnHalts ==
    /\ (Executed /\ Instr.op = "ret" /\ Len(last.pre.callstack) = 1) =>
           /\ last.raised = NoError
           /\ last.emitted = <<>>
           /\ vm.callstack = <<>>
           /\ vm.pc = Len(vm.instructions)
           /\ ctx.at = "idle"
    /\ Executed =>
           /\ last.pre.callstack # <<>>
           /\ Instr.op = "ret" => last.raised # STACK_UNDERFLOW
    /\ (vm.callstack = <<>> /\ vm.instructions # <<>>) =>
           /\ vm.pc = Len(vm.instructions)
           /\ ctx.at = "idle"

\* the RETURN of the main program halted an asynchronous run inside a tick,
\* before the last instruction of the program
C35_Witness ==
    /\ ReturnedFrom("main")
    /\ last.act = "runSomeStep"
    /\ vm.asynchronous
    /\ vm.callstack = <<>>
    /\ last.pre.pc + 1 < Len(vm.instructions)
    /\ ctx.at = "idle"

(***************************************************************************)
(* C36.  The walk of an evaluated interior node, from its ref along the    *)
(* last parent of each node, once for each symbol of its rule, ends at a   *)
(* parent recorded for that interior node.                                 *)
(***************************************************************************)
\* the node the walk of GlrInteriorNode.evaluate stands on after its last
\* step
PathEnd(n) ==
    IF parser.nodes[n].rule.symbols = <<>> THEN parser.nodes[n].ref
    ELSE IF Child(n, 1) = 0 THEN 0
    ELSE IF parser.nodes[Child(n, 1)].parents = <<>> THEN 0
    ELSE parser.nodes[Child(n, 1)].parents[
             Len(parser.nodes[Child(n, 1)].parents)]

\* the interior nodes evaluate(n) evaluates
RECURSIVE Evaluated(_)
Evaluated(n) ==
    IF n = 0 THEN {}
    ELSE IF parser.nodes[n].type = "shift" THEN {}
    ELSE IF parser.nodes[n].type = "reduce"
    THEN IF parser.nodes[n].inodes = <<>> THEN {}
         ELSE Evaluated(parser.nodes[n].inodes[1])
    ELSE {n} \cup UNION { Evaluated(Child(n, i)) :
                              i \in 1..Len(parser.nodes[n].rule.symbols) }

\* the interior nodes the last parse evaluated for its result
EvaluatedNodes ==
    IF Parsed /\ parser.thrown = "" /\ Accepting(parser) # <<>>
    THEN Evaluated(parser.nodes[Accepting(parser)[1]].parents[1])
    ELSE {}

\* C36: the walk of every evaluated interior node ends at one of the
\* parents recorded for it
C36_PathEndsAtParent ==
    \A n \in EvaluatedNodes :
        Contains(parser.nodes[n].parents, PathEnd(n))

(***************************************************************************)
(* C37.  pushref, pushvalue and popval look their name up with             *)
(* getVariable.  For an unbound name the lookup creates one variable of    *)
(* the type of the name's sigil, or of the program's default type, holding *)
(* that type's default value, and binds the name to it in the frame the    *)
(* name resolves to; for a bound name it returns the binding and creates   *)
(* nothing.  Only popvar changes a binding.                                *)
(***************************************************************************)
\* the last step executed an instruction that looks its name up, in a frame
\* that exists
Lookup ==
    /\ Executed
    /\ Instr.op \in {"pushref", "pushvalue", "popval"}
    /\ ResolveFrame(last.pre, Instr.s) # NoFrame

\* the type of a variable created for a name
TypeOf(name) ==
    IF DeriveTypeNameFromVariable(name) = "" THEN last.pre.defaultType
    ELSE DeriveTypeNameFromVariable(name)

\* the variable created by the last step
Fresh == Len(last.pre.cells) + 1

\* every binding but that of the instruction's name in the resolved frame
\* is as it was
OthersKept ==
    /\ Len(vm.maps) = Len(last.pre.maps)
    /\ \A j \in 1..Len(vm.maps) : \A n \in Names :
           (j # ResolvedMap \/ n # Instr.s) =>
               vm.maps[j][n] = last.pre.maps[j][n]

\* C37: a lookup of an unbound name creates exactly one variable of the
\* sigil's or the default type with its default value and binds the name to
\* it in the main frame for a shared name, in the current frame otherwise;
\* a lookup of a bound name returns the bound variable and creates none; a
\* binding changes only by popvar
C37_LookupCreatesOnce ==
    /\ Lookup =>
           ResolvedMap = IF Instr.s \in last.pre.shared
                         THEN last.pre.callstack[1].vars
                         ELSE last.pre.frame.vars
    /\ (Lookup /\ ~Truthy(Bound)) =>
           /\ Len(vm.cells) = Fresh
           /\ SubSeq(vm.cells, 1, Fresh - 1) = last.pre.cells
           /\ vm.cells[Fresh].type = TypeOf(Instr.s)
           /\ vm.cells[Fresh].value =
                  IF Instr.op = "popval" THEN Top(last.pre)
                  ELSE createInstance(TypeOf(Instr.s))
           /\ vm.maps[ResolvedMap][Instr.s] = Ref(Fresh)
           /\ OthersKept
           /\ Instr.op = "pushref" =>
                  vm.stack = Append(last.pre.stack, Ref(Fresh))
           /\ Instr.op = "pushvalue" =>
                  vm.stack = Append(last.pre.stack,
                                    createInstance(TypeOf(Instr.s)))
    /\ (Lookup /\ Truthy(Bound)) =>
           /\ Len(vm.cells) = Len(last.pre.cells)
           /\ vm.maps = last.pre.maps
           /\ Instr.op = "pushref" => vm.stack = Append(last.pre.stack, Bound)
           /\ Instr.op = "pushvalue" =>
                  vm.stack = Append(last.pre.stack,
                                    DotValue(last.pre, Bound).val)
    /\ (Executed /\ Instr.op # "popvar") =>
           \A j \in 1..Len(last.pre.maps) : \A n \in Names :
               Truthy(last.pre.maps[j][n]) =>
                   /\ j <= Len(vm.maps)
                   /\ vm.maps[j][n] = last.pre.maps[j][n]

\* PRINT F$ created a STRING variable holding the empty string, and the
\* reference pushed next is that variable; X, looked up after it, is a second
\* variable, of the default type INTEGER
C37_Witness ==
    /\ Lookup
    /\ Instr.op = "pushvalue"
    /\ Instr.s = "X"
    /\ ~Truthy(Bound)
    /\ vm.cells = << [type |-> "STRING", value |-> Str(0)],
                     [type |-> "INTEGER", value |-> Num(0)] >>
    /\ vm.stack = << Ref(1), Num(0) >>
    /\ vm.maps[1]["F$"] = Ref(1)

====
